---- MODULE Spec2Model ----
(***************************************************************************)
(* A model of the mem0 client core: MemorySearcher (src/core/searcher.py)  *)
(* and MemoryUploader (src/core/uploader.py) with the part of FileParser   *)
(* (src/core/parser.py) they call.                                         *)
(*                                                                         *)
(* Conventions.                                                            *)
(*  - A Python str is a sequence of code points (naturals).  Identifiers   *)
(*    that the code only ever compares for equality (user ids, dictionary  *)
(*    keys, mode names) are TLA+ strings.                                  *)
(*  - A Python dict is a function from keys to values; {"AND": [a, b]} is  *)
(*    [AND |-> <<a, b>>].                                                  *)
(*  - An Optional[T] is a set with at most one element: None is {} and a   *)
(*    present value x is {x}.                                              *)
(*  - A date is a day number; day 0 is 2023-12-01 (a Friday).              *)
(***************************************************************************)
EXTENDS Integers, Sequences, FiniteSets, TLC

(***************************************************************************)
(* Bounds of the model.                                                    *)
(***************************************************************************)
MaxStore == 2        \* records held by the backend
MaxWeeksBack == 2    \* largest weeks_back a caller passes
MaxFiles == 2        \* files in one batch
MaxClock == 2        \* readings of the clock that differ
MaxMessages == 2     \* elements of a messages array
MaxFragments == 2    \* pieces of a markdown text
MaxWeekRecords == 6  \* records the week query returns

(***************************************************************************)
(* Program constants.                                                      *)
(***************************************************************************)
SearchDefaultLimit == 10
SearchMaxLimit == 100
RelatedLimit == 20
StatsLimit == 1000
StatsDaysBack == 7
QueryMaxLen == 500
WeekMemoriesUsed == 5
MdMaxChars == 3000
MdMaxNewlines == 50
MaxFileSizeMb == 10
BytesPerMb == 1048576

DefaultUserId == "u1"
DefaultExtractMode == "auto"

(***************************************************************************)
(* Optional values and Python truthiness.                                  *)
(***************************************************************************)
None == {}
Some(x) == {x}
The(o) == CHOOSE x \in o : TRUE

\* Python `o or d` for an Optional[str] held as an identifier: None and ""
\* are falsy.
OrElse(o, d) == IF o = None \/ The(o) = "" THEN d ELSE The(o)

\* Python `limit or default` for an Optional[int]: None and 0 are falsy.
OrElseInt(o, d) == IF o = None \/ The(o) = 0 THEN d ELSE The(o)

(***************************************************************************)
(* Strings as sequences of code points.                                    *)
(***************************************************************************)
IsSpace(c) == c \in {9, 10, 11, 12, 13, 32}

\* str.lstrip(): from the first character that is no whitespace on
LStrip(s) ==
    SubSeq(s, CHOOSE q \in 1 .. (Len(s) + 1) :
                  /\ (q = Len(s) + 1 \/ ~IsSpace(s[q]))
                  /\ \A r \in 1 .. (q - 1) : IsSpace(s[r]),
           Len(s))

\* str.rstrip(): up to the last character that is no whitespace
RStrip(s) ==
    SubSeq(s, 1, CHOOSE q \in 0 .. Len(s) :
                     /\ (q = 0 \/ ~IsSpace(s[q]))
                     /\ \A r \in (q + 1) .. Len(s) : IsSpace(s[r]))

\* str.strip()
Strip(s) == RStrip(LStrip(s))

\* s[:n]
Take(s, n) == SubSeq(s, 1, IF Len(s) < n THEN Len(s) ELSE n)

\* sep.join(parts)
RECURSIVE Join(_, _)
Join(sep, parts) ==
    IF parts = <<>> THEN <<>>
    ELSE IF Len(parts) = 1 THEN parts[1]
    ELSE parts[1] \o sep \o Join(sep, Tail(parts))

\* a <= b on Python strings: code point by code point, a proper prefix is
\* smaller.
RECURSIVE StrLe(_, _)
StrLe(a, b) ==
    IF a = <<>> THEN TRUE
    ELSE IF b = <<>> THEN FALSE
    ELSE IF Head(a) < Head(b) THEN TRUE
    ELSE IF Head(a) > Head(b) THEN FALSE
    ELSE StrLe(Tail(a), Tail(b))

StrLt(a, b) == StrLe(a, b) /\ a # b

(***************************************************************************)
(* Dates.  The calendar covers 2023-12-01 .. 2024-03-31.                   *)
(***************************************************************************)
Days == 0 .. 121

\* datetime.weekday(): Monday is 0.
Weekday(d) == (d + 4) % 7

\* (year, month, day of month) of a day number.
YMD(d) ==
    IF d < 31 THEN <<2023, 12, d + 1>>
    ELSE IF d < 62 THEN <<2024, 1, d - 30>>
    ELSE IF d < 91 THEN <<2024, 2, d - 61>>
    ELSE <<2024, 3, d - 90>>

Digit(n) == 48 + n

\* strftime('%Y-%m-%d'): zero-padded year, month and day joined by "-".
StrfDate(d) ==
    LET y == YMD(d)[1]
        m == YMD(d)[2]
        dd == YMD(d)[3]
    IN  << Digit(y \div 1000), Digit((y \div 100) % 10),
           Digit((y \div 10) % 10), Digit(y % 10), 45,
           Digit(m \div 10), Digit(m % 10), 45,
           Digit(dd \div 10), Digit(dd % 10) >>

(***************************************************************************)
(* The backend's reading of a filter (the external memory service).        *)
(***************************************************************************)
CmpHolds(op, x, v) ==
    CASE op = "gte" -> StrLe(v, x)
      [] op = "lte" -> StrLe(x, v)
      [] op = "lt"  -> StrLt(x, v)
      [] op = "gt"  -> StrLt(v, x)

RECURSIVE Matches(_, _)
Matches(f, r) ==
    \A k \in DOMAIN f :
        CASE k = "AND" -> \A i \in 1 .. Len(f[k]) : Matches(f[k][i], r)
          [] k = "NOT" -> ~ (\A i \in 1 .. Len(f[k]) : Matches(f[k][i], r))
          [] k = "user_id" -> r.user_id = f[k]
          [] k = "created_at" ->
                \A op \in DOMAIN f[k] : CmpHolds(op, r.created_at, f[k][op])

\* The records of the store that match, in storage order.
Matching(recs, f) == SelectSeq(recs, LAMBDA r : Matches(f, r))

\* What a backend call can come back with: an error, or the matching
\* records cut to the limit.
BackendResponses(recs, call) ==
    { [ok |-> FALSE, records |-> <<>>],
      [ok |-> TRUE, records |-> Take(Matching(recs, call.filters), call.limit)] }


(***************************************************************************)
(* What the model draws its inputs from.                                   *)
(***************************************************************************)
Users == {"u1", "u2"}

\* 2023-12-24 (a Sunday) and 2023-12-25 (a Monday).
StoreDays == {23, 24}

\* Texts: "", " ", "ab".
Texts == {<<>>, <<32>>, <<97, 98>>}

\* A backend record is a dict with user_id and created_at and, unless the
\* backend left it out, memory.
StoreRecords ==
    { [user_id |-> u, created_at |-> StrfDate(d)] : u \in Users, d \in StoreDays }
    \cup
    { [user_id |-> u, created_at |-> StrfDate(d), memory |-> m] :
        u \in Users, d \in StoreDays, m \in Texts }

Stores == UNION { [1 .. n -> StoreRecords] : n \in 0 .. MaxStore }

\* datetime.now() during a search: 2024-01-01 (a Monday), 2024-01-04 (a
\* Thursday).
Todays == {31, 34}

\* datetime.now() for the week arithmetic alone: 2023-12-29 .. 2024-02-01.
WeekTodays == 28 .. 62

UserArgs == {None, Some("u2")}
QueryArgs == {None, Some(<<97>>)}
LimitArgs == {None, Some(1)}
DateArgs == {None} \cup { Some(StrfDate(d)) : d \in StoreDays }
DaysBackArgs == {Some(0), Some(8)}

\* dict.get(key, default)
Get(m, key, default) == IF key \in DOMAIN m THEN m[key] ELSE default

\* Python truthiness of an Optional[str] / Optional[dict].
Truthy(o) == o # None /\ DOMAIN The(o) # {}

(***************************************************************************)
(* MemorySearcher: the filters and calls it builds.                        *)
(***************************************************************************)
Call(method, query, filters, limit) ==
    [method |-> method, query |-> query, filters |-> filters, limit |-> limit]

\* search_by_query: the filter and the search() call.
QueryFilters(user_id, filters) ==
    [AND |-> <<[user_id |-> user_id]>>
             \o (IF Truthy(filters) THEN <<The(filters)>> ELSE <<>>)]

QueryCall(query, user_id, limit, filters) ==
    Call("search", Some(query), QueryFilters(user_id, filters), limit)

\* search_by_time_range: the date range, the filter and the call.
TimeRangeDates(now, days_back, start_date, end_date) ==
    IF days_back # None
    THEN <<Some(StrfDate(now - The(days_back))), Some(StrfDate(now))>>
    ELSE <<start_date, end_date>>

TimeRangeInvalid(days_back, start_date, end_date) ==
    days_back = None /\ (start_date = None \/ end_date = None)

\* (mutant) the lower bound is exclusive.
TimeFilterExclusive(user_id, start_date, end_date) ==
    [AND |-> << [user_id |-> user_id],
                [created_at |-> [gt |-> start_date, lte |-> end_date]] >>]

TimeFilter(user_id, start_date, end_date) ==
    [AND |-> << [user_id |-> user_id],
                [created_at |-> [gte |-> start_date, lte |-> end_date]] >>]

TimeRangeCall(user_id, start_date, end_date, query, limit) ==
    IF Truthy(query)
    THEN Call("search", query, TimeFilter(user_id, start_date, end_date), limit)
    ELSE Call("get_all", None, TimeFilter(user_id, start_date, end_date), limit)

\* search_weekly_report_data: the week, the query text and the history filter.
\* (mutant) a rolling window: today's weekday is not subtracted.
WeekStartRolling(now, weeks_back) == now - 7 * weeks_back

WeekStart(now, weeks_back) == now - (Weekday(now) + 7 * weeks_back)
WeekEnd(week_start) == week_start + 6

\* (mutant) every record of the week goes into the text.
WeekContentAll(week_memories) ==
    Join(<<32>>, [i \in 1 .. Len(week_memories)
                    |-> Get(week_memories[i], "memory", <<>>)])

WeekContent(week_memories) ==
    Join(<<32>>, [i \in 1 .. (IF Len(week_memories) < WeekMemoriesUsed
                              THEN Len(week_memories) ELSE WeekMemoriesUsed)
                    |-> Get(week_memories[i], "memory", <<>>)])

\* (mutant) the first day of the week is let through.
HistoryFilterInclusive(week_start) == [created_at |-> [lte |-> StrfDate(week_start)]]

HistoryFilter(week_start) == [created_at |-> [lt |-> StrfDate(week_start)]]

\* (mutant) the related query is made whatever the week returned.
WantsRelatedAlways(week_memories) == TRUE

\* (mutant) the related query is made for any record, blank text or not.
WantsRelatedAnyRecord(week_memories) == week_memories # <<>>

WantsRelated(week_memories) ==
    week_memories # <<>> /\ Strip(WeekContent(week_memories)) # <<>>

RelatedCall(week_memories, user_id, week_start) ==
    QueryCall(Take(WeekContent(week_memories), QueryMaxLen), user_id,
              RelatedLimit, Some(HistoryFilter(week_start)))

\* The filter of search_related_to_content, were the ends of the excluded
\* range left out of it.
ExclusionFiltersOpenEnds(user_id, exclude_time_range) ==
    [AND |-> << [user_id |-> user_id],
                [NOT |-> << [created_at |->
                                [gt |-> The(exclude_time_range)["start"],
                                 lt |-> The(exclude_time_range)["end"]]] >>] >>]

\* The filter of search_related_to_content, were `start` alone enough for
\* the NOT branch.
ExclusionFiltersStartOnly(user_id, exclude_time_range) ==
    [AND |-> <<[user_id |-> user_id]>>
             \o (IF Truthy(exclude_time_range)
                    /\ "start" \in DOMAIN The(exclude_time_range)
                 THEN << [NOT |-> << [created_at |->
                            [gte |-> The(exclude_time_range)["start"]]] >>] >>
                 ELSE <<>>)]

\* search_related_to_content: the filter.
ExclusionFilters(user_id, exclude_time_range) ==
    [AND |-> <<[user_id |-> user_id]>>
             \o (IF Truthy(exclude_time_range)
                    /\ "start" \in DOMAIN The(exclude_time_range)
                    /\ "end" \in DOMAIN The(exclude_time_range)
                 THEN << [NOT |-> << [created_at |->
                            [gte |-> The(exclude_time_range)["start"],
                             lte |-> The(exclude_time_range)["end"]]] >>] >>
                 ELSE <<>>)]

\* get_user_stats: the filter of its first call.
StatsFilters(user_id) == [user_id |-> user_id]


(***************************************************************************)
(* FileParser.                                                             *)
(*                                                                         *)
(* A timestamp is a clock reading t; isoformat() of it is <<"T", t>>.      *)
(* A decoded JSON value is tagged: [t |-> "dict", d |-> a function],       *)
(* [t |-> "list", l |-> a sequence], [t |-> "str", s |-> a string],        *)
(* [t |-> "num", v |-> m, e |-> e] for the number m * 10^e (m of one digit *)
(* when e > 0), [t |-> "bool", b |-> TRUE or FALSE], [t |-> "null"].       *)
(***************************************************************************)
IsoFormat(t) == <<"T", t>>

JDict(f) == [t |-> "dict", d |-> f]
JList(l) == [t |-> "list", l |-> l]
JStr(x) == [t |-> "str", s |-> x]
JNum(m, e) == [t |-> "num", v |-> m, e |-> e]
JBool(b) == [t |-> "bool", b |-> b]
JNull == [t |-> "null"]

\* str(value) of a decoded JSON value.
PyStr(j) == <<"str", j>>

Parsed(messages, metadata) ==
    [ok |-> TRUE, messages |-> messages, metadata |-> metadata]
\* An exception: its class and the text str() gives for it.
Error(type, text) == [type |-> type, text |-> text]
StrOf(e) == e.text

ParseError(type, text) == [ok |-> FALSE, error |-> Error(type, text)]

\* The texts of the model:  ab  |  ␣ab␣  |  {"messages":[]}  |
\* {"messages":[{"content":"hi"}]}  |  **Bot:** hi
TxtPlain == <<97, 98>>
TxtPadded == <<32, 97, 98, 32>>
TxtJsonEmpty ==
    <<123, 34, 109, 101, 115, 115, 97, 103, 101, 115, 34, 58, 91, 93, 125>>
TxtJsonChat ==
    <<123, 34, 109, 101, 115, 115, 97, 103, 101, 115, 34, 58, 91, 123, 34, 99,
      111, 110, 116, 101, 110, 116, 34, 58, 34, 104, 105, 34, 125, 93, 125>>
TxtBoldChat == <<42, 42, 66, 111, 116, 58, 42, 42, 32, 104, 105>>

\* {"messages":[{"content":"Made with Echoes"}]}
TxtJsonEchoes ==
    <<123, 34, 109, 101, 115, 115, 97, 103, 101, 115, 34, 58, 91, 123, 34, 99,
      111, 110, 116, 101, 110, 116, 34, 58, 34, 77, 97, 100, 101, 32, 119, 105,
      116, 104, 32, 69, 99, 104, 111, 101, 115, 34, 125, 93, 125>>

\* The text without the whitespace JSON allows around a value (space, tab,
\* newline, carriage return).
JsonTrim(text) ==
    LET from == CHOOSE q \in 1 .. (Len(text) + 1) :
                    /\ (q = Len(text) + 1 \/ text[q] \notin {9, 10, 13, 32})
                    /\ \A r \in 1 .. (q - 1) : text[r] \in {9, 10, 13, 32}
        to == CHOOSE q \in 0 .. Len(text) :
                    /\ (q = 0 \/ text[q] \notin {9, 10, 13, 32})
                    /\ \A r \in (q + 1) .. Len(text) : text[r] \in {9, 10, 13, 32}
    IN  SubSeq(text, from, to)

\* json.loads on the texts of the model: the decoded value, or a decode
\* error.
JsonLoads(text) ==
    CASE JsonTrim(text) = TxtJsonEmpty ->
            [ok |-> TRUE, value |-> JDict([messages |-> JList(<<>>)])]
      [] JsonTrim(text) = TxtJsonChat ->
            [ok |-> TRUE,
             value |-> JDict([messages |->
                          JList(<<JDict([content |-> JStr(<<104, 105>>)])>>)])]
      [] JsonTrim(text) = TxtJsonEchoes ->
            [ok |-> TRUE,
             value |-> JDict([messages |->
                          JList(<<JDict([content |->
                              JStr(SubSeq(TxtJsonEchoes, 26, 41))])>>)])]
      [] OTHER -> [ok |-> FALSE, value |-> JNull]

(***************************************************************************)
(* The regular expressions of parse_markdown_chat and detect_content_type, *)
(* matched as the re module matches them.  A position i stands before      *)
(* text[i]; Len(text) + 1 is the end of the text.                          *)
(***************************************************************************)
\* text[i], or -1 outside the text
At(text, i) == IF i \in 1 .. Len(text) THEN text[i] ELSE -1

\* ^ and $ under re.MULTILINE
LineStart(text, i) == i = 1 \/ At(text, i - 1) = 10
LineEnd(text, i) == i = Len(text) + 1 \/ At(text, i) = 10

\* Where a greedy [^...]+ that started at i stops: the first position from i
\* on that holds a character of stop, or the end of the text.
RunEnd(text, i, stop) ==
    CHOOSE q \in i .. (Len(text) + 1) :
        /\ (q = Len(text) + 1 \/ text[q] \in stop)
        /\ \A r \in i .. (q - 1) : text[r] \notin stop

\* Where a greedy \s* that started at i stops.
SpaceEnd(text, i) ==
    CHOOSE q \in i .. (Len(text) + 1) :
        /\ ~IsSpace(At(text, q))
        /\ \A r \in i .. (q - 1) : IsSpace(text[r])

\* A matched label: the group text[from .. to] and the position after the
\* label's closing mark; next = 0 when the label does not match.
NoLabel == [from |-> 0, to |-> 0, next |-> 0]

\* \*\*([^*]+):\*\*  at s
BoldLabel(text, s) ==
    IF At(text, s) = 42 /\ At(text, s + 1) = 42
    THEN LET q == RunEnd(text, s + 2, {42})
         IN  IF q >= s + 4 /\ text[q - 1] = 58
                /\ At(text, q) = 42 /\ At(text, q + 1) = 42
             THEN [from |-> s + 2, to |-> q - 2, next |-> q + 2]
             ELSE NoLabel
    ELSE NoLabel

\* ^##\s+([^#\n]+)\n  at s: the greedy \s+ gives characters back until the
\* label that follows it is one that ends in a newline.
HeadingLabel(text, s) ==
    IF LineStart(text, s) /\ At(text, s) = 35 /\ At(text, s + 1) = 35
    THEN LET starts == { j \in (s + 3) .. SpaceEnd(text, s + 2) :
                           LET q == RunEnd(text, j, {35, 10})
                           IN  q > j /\ At(text, q) = 10 }
         IN  IF starts = {} THEN NoLabel
             ELSE LET j == CHOOSE k \in starts : \A m \in starts : m <= k
                      q == RunEnd(text, j, {35, 10})
                  IN  [from |-> j, to |-> q - 1, next |-> q + 1]
    ELSE NoLabel

\* ^([^:\n]+):  at s
LinePrefixLabel(text, s) ==
    IF LineStart(text, s) /\ s <= Len(text)
    THEN LET q == RunEnd(text, s, {58, 10})
         IN  IF q > s /\ At(text, q) = 58
             THEN [from |-> s, to |-> q - 1, next |-> q + 1]
             ELSE NoLabel
    ELSE NoLabel

\* \[([^\]]+)\]  at s
BracketLabel(text, s) ==
    IF At(text, s) = 91
    THEN LET q == RunEnd(text, s + 1, {93})
         IN  IF q > s + 1 /\ At(text, q) = 93
             THEN [from |-> s + 1, to |-> q - 1, next |-> q + 1]
             ELSE NoLabel
    ELSE NoLabel

\* ^##\s+  at s
HeadingMark(text, s) ==
    /\ LineStart(text, s)
    /\ At(text, s) = 35
    /\ At(text, s + 1) = 35
    /\ IsSpace(At(text, s + 2))

\* user, assistant, human, ai, bot, gpt, claude
RoleWords ==
    { <<117, 115, 101, 114>>, <<97, 115, 115, 105, 115, 116, 97, 110, 116>>,
      <<104, 117, 109, 97, 110>>, <<97, 105>>, <<98, 111, 116>>,
      <<103, 112, 116>>, <<99, 108, 97, 117, 100, 101>> }

\* str.lower(), on ASCII
LowerChar(c) == IF c >= 65 /\ c <= 90 THEN c + 32 ELSE c
Lower(x) == [k \in 1 .. Len(x) |-> LowerChar(x[k])]

\* (user|assistant|human|ai|bot|gpt|claude)[\s:：]  at s, ignoring case
RoleWordAt(text, s) ==
    \E word \in RoleWords :
        /\ s + Len(word) <= Len(text)
        /\ Lower(SubSeq(text, s, s + Len(word) - 1)) = word
        /\ (IsSpace(text[s + Len(word)]) \/ text[s + Len(word)] \in {58, 65306})

\* The regular expressions of detect_content_type, in the order of the list,
\* each named by the speaker mark it looks for.
ChatIndicators == <<"bold", "heading", "line_prefix", "bracket", "role_word">>

\* The regular expressions of parse_markdown_chat, in the order of the list.
Patterns == <<"bold", "heading", "line_prefix", "bracket">>

\* The indicator of the kind matches at s.
IndicatorAt(kind, text, s) ==
    CASE kind = "bold" -> BoldLabel(text, s).next # 0
      [] kind = "heading" ->
            /\ HeadingMark(text, s)
            /\ \E j \in (s + 3) .. SpaceEnd(text, s + 2) :
                  At(text, j) \notin {35, 10, -1}
      [] kind = "line_prefix" ->
            LET label == LinePrefixLabel(text, s)
            IN  label.next # 0 /\ IsSpace(At(text, label.next))
      [] kind = "bracket" -> BracketLabel(text, s).next # 0
      [] kind = "role_word" -> RoleWordAt(text, s)

\* re.search(chat_indicators[i], text, MULTILINE | IGNORECASE) finds a match.
ReSearch(i, text) ==
    \E s \in 1 .. Len(text) : IndicatorAt(ChatIndicators[i], text, s)

\* The label of the pattern of the kind at s.
LabelAt(kind, text, s) ==
    CASE kind = "bold" -> BoldLabel(text, s)
      [] kind = "heading" -> HeadingLabel(text, s)
      [] kind = "line_prefix" -> LinePrefixLabel(text, s)
      [] kind = "bracket" -> BracketLabel(text, s)

\* The lookahead that ends the body of the pattern: the next label, or $.
Ahead(kind, text, e) ==
    \/ LineEnd(text, e)
    \/ CASE kind = "bold" -> BoldLabel(text, e).next # 0
         [] kind = "heading" -> HeadingMark(text, e)
         [] kind = "line_prefix" -> LinePrefixLabel(text, e).next # 0
         [] kind = "bracket" -> BracketLabel(text, e).next # 0

\* The lazy body (.*?) that starts at p ends at the first position where the
\* lookahead holds.
BodyEnd(kind, text, p) ==
    CHOOSE e \in p .. (Len(text) + 1) :
        /\ Ahead(kind, text, e)
        /\ \A r \in p .. (e - 1) : ~Ahead(kind, text, r)

\* The (label, body) pair of the match whose label is given; the body follows
\* the \s* of the pattern (the heading pattern has none), and end is where the
\* match ends.
MatchOf(kind, text, label) ==
    LET p == IF kind = "heading" THEN label.next
             ELSE SpaceEnd(text, label.next)
    IN  [pair |-> <<SubSeq(text, label.from, label.to),
                    SubSeq(text, p, BodyEnd(kind, text, p) - 1)>>,
         end |-> BodyEnd(kind, text, p)]

\* The matches of the pattern from s on, left to right: the match at the
\* first position that has one, then the matches from where it ended.
RECURSIVE ReFindallFrom(_, _, _)
ReFindallFrom(kind, text, s) ==
    IF \A q \in s .. Len(text) : LabelAt(kind, text, q).next = 0 THEN <<>>
    ELSE LET q == CHOOSE q \in s .. Len(text) :
                     /\ LabelAt(kind, text, q).next # 0
                     /\ \A r \in s .. (q - 1) : LabelAt(kind, text, r).next = 0
             m == MatchOf(kind, text, LabelAt(kind, text, q))
         IN  <<m.pair>> \o ReFindallFrom(kind, text, m.end)

\* re.findall(patterns[i], text, MULTILINE | DOTALL): the (label, body) pairs.
ReFindall(i, text) == ReFindallFrom(Patterns[i], text, 1)

\* sub in s
Contains(s, sub) ==
    \E k \in 0 .. (Len(s) - Len(sub)) : SubSeq(s, k + 1, k + Len(sub)) = sub

\* user, human, you, me, 用户, 我
UserAliases ==
    { <<117, 115, 101, 114>>, <<104, 117, 109, 97, 110>>, <<121, 111, 117>>,
      <<109, 101>>, <<29992, 25143>>, <<25105>> }
\* assistant, ai, bot, gpt, claude, chatgpt, 助手, 机器人
AssistantAliases ==
    { <<97, 115, 115, 105, 115, 116, 97, 110, 116>>, <<97, 105>>,
      <<98, 111, 116>>, <<103, 112, 116>>, <<99, 108, 97, 117, 100, 101>>,
      <<99, 104, 97, 116, 103, 112, 116>>, <<21161, 25163>>,
      <<26426, 22120, 20154>> }
\* system, sys, 系统
SystemAliases ==
    { <<115, 121, 115, 116, 101, 109>>, <<115, 121, 115>>, <<31995, 32479>> }

\* The assistant aliases are tested before the user aliases.
NormalizeRoleAssistantFirst(role) ==
    LET role_lower == Strip(Lower(role))
    IN  IF \E alias \in AssistantAliases : Contains(role_lower, alias)
        THEN "assistant"
        ELSE IF \E alias \in UserAliases : Contains(role_lower, alias)
             THEN "user"
        ELSE IF \E alias \in SystemAliases : Contains(role_lower, alias)
             THEN "system"
        ELSE "user"

NormalizeRole(role) ==
    LET role_lower == Strip(Lower(role))
    IN  IF \E alias \in UserAliases : Contains(role_lower, alias) THEN "user"
        ELSE IF \E alias \in AssistantAliases : Contains(role_lower, alias)
             THEN "assistant"
        ELSE IF \E alias \in SystemAliases : Contains(role_lower, alias)
             THEN "system"
        ELSE "user"

\* dict update: the entries of b win.
Update(a, b) == b @@ a

\* The raw mode keeps the content as it is, untrimmed.
ParsePlainTextRawUntrimmed(content, extract_mode, now) ==
    Parsed(<<[role |-> "user",
              content |-> IF extract_mode = "raw" THEN content
                          ELSE Strip(content)]>>,
           [source |-> "plain_text",
            extract_mode |-> extract_mode,
            parsed_at |-> IsoFormat(now),
            format |-> IF extract_mode = "raw" THEN "raw_content"
                       ELSE "ai_extract"])

\* parse_plain_text
ParsePlainText(content, extract_mode, now) ==
    Parsed(<<[role |-> "user", content |-> Strip(content)]>>,
           [source |-> "plain_text",
            extract_mode |-> extract_mode,
            parsed_at |-> IsoFormat(now),
            format |-> IF extract_mode = "raw" THEN "raw_content"
                       ELSE "ai_extract"])

\* parse_markdown_chat
RECURSIVE MarkdownMessages(_)
MarkdownMessages(matches) ==
    IF matches = <<>> THEN <<>>
    ELSE LET role == NormalizeRole(Strip(Head(matches)[1]))
             content_clean == Strip(Head(matches)[2])
         IN  (IF content_clean # <<>>
              THEN <<[role |-> role, content |-> content_clean]>>
              ELSE <<>>) \o MarkdownMessages(Tail(matches))

\* The loop goes on to the next pattern also when the matches of a pattern
\* have no body to keep.
FirstPatternWithBody(content) ==
    IF \E i \in DOMAIN Patterns : MarkdownMessages(ReFindall(i, content)) # <<>>
    THEN CHOOSE i \in DOMAIN Patterns :
            /\ MarkdownMessages(ReFindall(i, content)) # <<>>
            /\ \A j \in 1 .. (i - 1) :
                  MarkdownMessages(ReFindall(j, content)) = <<>>
    ELSE 0

\* The pattern the loop breaks at: the first with a match, 0 when none has
\* one.
FirstPattern(content) ==
    IF \E i \in DOMAIN Patterns : ReFindall(i, content) # <<>>
    THEN CHOOSE i \in DOMAIN Patterns :
            /\ ReFindall(i, content) # <<>>
            /\ \A j \in 1 .. (i - 1) : ReFindall(j, content) = <<>>
    ELSE 0

\* The patterns the loop ran re.findall with, in the order it ran them.
PatternsEvaluated(content) ==
    IF FirstPattern(content) = 0 THEN Patterns
    ELSE SubSeq(Patterns, 1, FirstPattern(content))

\* The fallback leaves the format of the metadata as it was.
ParseMarkdownChatKeepsFormat(content, now) ==
    LET i == FirstPattern(content)
        messages == IF i = 0 THEN <<>>
                    ELSE MarkdownMessages(ReFindall(i, content))
        metadata == [source |-> "markdown_chat", format |-> "conversation",
                     parsed_at |-> IsoFormat(now)]
    IN  IF messages = <<>>
        THEN Parsed(<<[role |-> "user", content |-> Strip(content)]>>,
                    metadata)
        ELSE Parsed(messages, metadata)

ParseMarkdownChat(content, now) ==
    LET i == FirstPattern(content)
        messages == IF i = 0 THEN <<>>
                    ELSE MarkdownMessages(ReFindall(i, content))
        metadata == [source |-> "markdown_chat", format |-> "conversation",
                     parsed_at |-> IsoFormat(now)]
    IN  IF messages = <<>>
        THEN Parsed(<<[role |-> "user", content |-> Strip(content)]>>,
                    Update(metadata, [format |-> "single_message"]))
        ELSE Parsed(messages, metadata)

\* m * 10^e <= k * 10^d in absolute value, for m and k of one digit
Within(j, k, d) ==
    LET m == IF j.v < 0 THEN 0 - j.v ELSE j.v
    IN  m = 0 \/ j.e < d \/ (j.e = d /\ m <= k)

\* datetime.fromtimestamp(ms / 1000).isoformat(): the iso string, or the
\* error raised.  A non-number cannot be divided (TypeError); a year outside
\* 1..9999 (before -6.2e13 ms, after 2.5e14 ms) is a ValueError; a value the
\* platform's localtime or time_t cannot take (beyond 6.7e19 ms) is an
\* OSError or an OverflowError.
FromTimestampMs(j) ==
    IF j.t = "bool" THEN [ok |-> TRUE, iso |-> IsoFormat(<<"ms", j.b, 0>>)]
    ELSE IF j.t # "num" THEN ParseError("TypeError", "unsupported operand")
    ELSE IF (j.v >= 0 /\ Within(j, 2, 14)) \/ (j.v < 0 /\ Within(j, 6, 13))
         THEN [ok |-> TRUE, iso |-> IsoFormat(<<"ms", j.v, j.e>>)]
    ELSE IF Within(j, 6, 19)
         THEN ParseError("ValueError", "year is out of range")
    ELSE ParseError("OverflowError", "timestamp out of range")

\* The conversation_created / conversation_updated entry for data[key], the
\* error that escapes, or no entry.
TimeEntry(data, key, name) ==
    IF key \notin DOMAIN data THEN Parsed(<<>>, <<>>)
    ELSE LET r == FromTimestampMs(data[key])
         IN  IF r.ok THEN Parsed(<<>>, name :> r.iso)
             ELSE IF r.error.type \in {"ValueError", "TypeError"}
                  THEN Parsed(<<>>, name :> PyStr(data[key]))
             ELSE r

\* One element of data["messages"]: the message it yields (a sequence of at
\* most one), or the error it raises.
JsonMessage(msg) ==
    IF msg.t # "dict" THEN Parsed(<<>>, <<>>)
    ELSE LET role == Get(msg.d, "role", JStr(<<117, 115, 101, 114>>))
             content == Get(msg.d, "content", JStr(<<>>))
             falsy == \/ content.t = "null"
                      \/ content.t = "num" /\ content.v = 0
                      \/ content.t = "bool" /\ ~ content.b
                      \/ content.t = "str" /\ content.s = <<>>
                      \/ content.t = "list" /\ content.l = <<>>
                      \/ content.t = "dict" /\ DOMAIN content.d = {}
         IN  IF falsy THEN Parsed(<<>>, <<>>)
             ELSE IF content.t # "str"
                  THEN ParseError("AttributeError", "no attribute strip")
             ELSE IF Strip(content.s) = <<>> THEN Parsed(<<>>, <<>>)
             ELSE IF role.t # "str"
                  THEN ParseError("AttributeError", "no attribute lower")
             ELSE Parsed(<<[role |-> NormalizeRole(role.s),
                            content |-> Strip(content.s)]>>, <<>>)

RECURSIVE JsonMessages(_)
JsonMessages(list) ==
    IF list = <<>> THEN Parsed(<<>>, <<>>)
    ELSE LET first == JsonMessage(Head(list))
             rest == JsonMessages(Tail(list))
         IN  IF ~ first.ok THEN first
             ELSE IF ~ rest.ok THEN rest
             ELSE Parsed(first.messages \o rest.messages, <<>>)

RoleCounts(messages) ==
    LET roles == { messages[k].role : k \in 1 .. Len(messages) }
    IN  [r \in roles |->
            Cardinality({ k \in 1 .. Len(messages) : messages[k].role = r })]

\* The text of a key: title, id, created, updated, messages.
KeyText(key) ==
    CASE key = "title" -> <<116, 105, 116, 108, 101>>
      [] key = "id" -> <<105, 100>>
      [] key = "created" -> <<99, 114, 101, 97, 116, 101, 100>>
      [] key = "updated" -> <<117, 112, 100, 97, 116, 101, 100>>
      [] key = "messages" -> <<109, 101, 115, 115, 97, 103, 101, 115>>

\* key in data, for a decoded array (an element equal to the key) or string
\* (the key a substring)
FoundIn(data, key) ==
    IF data.t = "list"
    THEN \E i \in 1 .. Len(data.l) : data.l[i] = JStr(KeyText(key))
    ELSE Contains(data.s, KeyText(key))

\* parse_json_chat, were a conversation without a surviving message
\* returned as it is.
JsonFinishKeepsEmpty(parsed, metadata) ==
    IF ~ parsed.ok THEN parsed
    ELSE Parsed(parsed.messages,
                Update(metadata,
                       [message_count |-> Len(parsed.messages),
                        role_distribution |-> RoleCounts(parsed.messages)]))

\* parse_json_chat, after the loop over data["messages"]
JsonFinish(parsed, metadata) ==
    IF ~ parsed.ok THEN parsed
    ELSE IF parsed.messages = <<>>
         THEN ParseError("ValueError", "No valid messages found in JSON")
    ELSE Parsed(parsed.messages,
                Update(metadata,
                       [message_count |-> Len(parsed.messages),
                        role_distribution |-> RoleCounts(parsed.messages)]))

\* parse_json_chat, for a decoded object
ParseJsonDict(d, now) ==
    LET base == [source |-> "json_chat", format |-> "json_conversation",
                 parsed_at |-> IsoFormat(now)]
        title == IF "title" \in DOMAIN d
                 THEN "conversation_title" :> d["title"] ELSE <<>>
        id == IF "id" \in DOMAIN d
              THEN "conversation_id" :> d["id"] ELSE <<>>
        created == TimeEntry(d, "created", "conversation_created")
        updated == TimeEntry(d, "updated", "conversation_updated")
    IN  IF ~ created.ok THEN created
        ELSE IF ~ updated.ok THEN updated
        ELSE IF ~ ("messages" \in DOMAIN d /\ d["messages"].t = "list")
             THEN ParseError("ValueError", "JSON must contain a 'messages' array")
        ELSE JsonFinish(JsonMessages(d["messages"].l),
                        Update(Update(Update(Update(base, title), id),
                                      created.metadata), updated.metadata))

\* parse_json_chat, from what json.loads gave.  `key in data` is a TypeError
\* for a number, a boolean and null; an array or a string in which a key is
\* found is then indexed with it, a TypeError as well.
ParseJsonLoaded(loaded, now) ==
    IF ~ loaded.ok THEN ParseError("ValueError", "Invalid JSON format")
    ELSE IF loaded.value.t \in {"num", "bool", "null"}
         THEN ParseError("TypeError", "not iterable")
    ELSE IF loaded.value.t \in {"list", "str"}
         THEN IF \E key \in {"title", "id", "created", "updated", "messages"} :
                    FoundIn(loaded.value, key)
              THEN ParseError("TypeError", "indices must be integers")
              ELSE ParseError("ValueError", "JSON must contain a 'messages' array")
    ELSE ParseJsonDict(loaded.value.d, now)

\* parse_json_chat
ParseJsonChat(content, now) == ParseJsonLoaded(JsonLoads(content), now)

\* detect_content_type
DetectContentType(content, file_extension) ==
    LET stripped == Strip(content)
        looks_json == \/ file_extension = ".json"
                      \/ stripped # <<>> /\ Head(stripped) = 123
        loaded == JsonLoads(content)
    IN  IF /\ looks_json
           /\ loaded.ok
           /\ loaded.value.t = "dict"
           /\ "messages" \in DOMAIN loaded.value.d
        THEN "json_chat"
        ELSE IF \E i \in DOMAIN ChatIndicators : ReSearch(i, content)
             THEN "markdown_chat"
        ELSE "plain_text"

\* The indicator detect_content_type returns at: the first that matches, 0
\* when none does.
FirstIndicator(content) ==
    IF \E i \in DOMAIN ChatIndicators : ReSearch(i, content)
    THEN CHOOSE i \in DOMAIN ChatIndicators :
            /\ ReSearch(i, content)
            /\ \A j \in 1 .. (i - 1) : ~ReSearch(j, content)
    ELSE 0

\* "Made with Echoes", "This conversation was exported"
MarkerEchoes ==
    <<77, 97, 100, 101, 32, 119, 105, 116, 104, 32, 69, 99, 104, 111, 101, 115>>
MarkerExported ==
    <<84, 104, 105, 115, 32, 99, 111, 110, 118, 101, 114, 115, 97, 116, 105,
      111, 110, 32, 119, 97, 115, 32, 101, 120, 112, 111, 114, 116, 101, 100>>

\* content.count('\n')
CountNewlines(content) == Cardinality({ k \in 1 .. Len(content) : content[k] = 10 })

\* The limits are reached, not passed.
MdOverrideAtLimit(content) ==
    \/ Contains(content, MarkerEchoes)
    \/ Contains(content, MarkerExported)
    \/ Len(content) >= MdMaxChars
    \/ CountNewlines(content) >= MdMaxNewlines

MdOverride(content) ==
    \/ Contains(content, MarkerEchoes)
    \/ Contains(content, MarkerExported)
    \/ Len(content) > MdMaxChars
    \/ CountNewlines(content) > MdMaxNewlines

\* The files of the model.  gone.txt does not exist, big.txt is one byte
\* over the size limit, empty.json is a chat without messages.
Paths == {"gone.txt", "big.txt", "note.txt", "empty.json", "chat.json", "chat.md"}

FileOf(text) == [exists |-> TRUE, size |-> Len(text), mtime |-> 0, text |-> text]

FileSystem(path) ==
    CASE path = "gone.txt" ->
            [exists |-> FALSE, size |-> 0, mtime |-> 0, text |-> <<>>]
      [] path = "big.txt" ->
            [exists |-> TRUE, size |-> MaxFileSizeMb * BytesPerMb + 1,
             mtime |-> 0, text |-> TxtPlain]
      [] path = "note.txt" -> FileOf(TxtPadded)
      [] path = "empty.json" -> FileOf(TxtJsonEmpty)
      [] path = "chat.json" -> FileOf(TxtJsonChat)
      [] path = "chat.md" -> FileOf(TxtBoldChat)

\* Path(file_path).suffix of the paths of the model.
Suffix(path) ==
    CASE path \in {"gone.txt", "big.txt", "note.txt", "doc.txt"} -> ".txt"
      [] path \in {"empty.json", "chat.json", "doc.json"} -> ".json"
      [] path \in {"chat.md", "doc.md"} -> ".md"

\* parse_file: the parser the content type selects
ParseAs(content_type, content, extract_mode, now) ==
    IF content_type = "json_chat" THEN ParseJsonChat(content, now)
    ELSE IF content_type = "markdown_chat" THEN ParseMarkdownChat(content, now)
    ELSE ParsePlainText(content, extract_mode, now)

\* parse_file: metadata.update(base_metadata), when the parser returned
MergeBase(parsed, base_metadata) ==
    IF ~ parsed.ok THEN parsed
    ELSE Parsed(parsed.messages, Update(parsed.metadata, base_metadata))

\* parse_file, were a content detected as a JSON chat kept from the
\* override of .md files.
ParseOpenedJsonKept(file, path, extract_mode, now) ==
    LET base_metadata == [file_name |-> path,
                          file_path |-> <<"abs", path>>,
                          file_size |-> file.size,
                          file_modified |-> IsoFormat(file.mtime)]
        detected == DetectContentType(file.text, Suffix(path))
        content_type == IF /\ Suffix(path) = ".md"
                           /\ MdOverride(file.text)
                           /\ detected # "json_chat"
                        THEN "plain_text"
                        ELSE detected
    IN  IF ~ file.exists
        THEN ParseError("FileNotFoundError", <<"File not found: ", path>>)
        ELSE MergeBase(ParseAs(content_type, file.text, extract_mode, now),
                       base_metadata)

\* parse_file, the file at the path being the one given
ParseOpened(file, path, extract_mode, now) ==
    LET base_metadata == [file_name |-> path,
                          file_path |-> <<"abs", path>>,
                          file_size |-> file.size,
                          file_modified |-> IsoFormat(file.mtime)]
        content_type == IF Suffix(path) = ".md" /\ MdOverride(file.text)
                        THEN "plain_text"
                        ELSE DetectContentType(file.text, Suffix(path))
    IN  IF ~ file.exists
        THEN ParseError("FileNotFoundError", <<"File not found: ", path>>)
        ELSE MergeBase(ParseAs(content_type, file.text, extract_mode, now),
                       base_metadata)

\* The readings of datetime.now() and the extract modes of the model.
Clocks == 1 .. MaxClock
Modes == {"auto", "raw"}

\* What parse_file gives for each file of the model, each extract mode and
\* each reading of the clock.
ParsedFiles ==
    [path \in Paths, extract_mode \in Modes, now \in Clocks |->
        ParseOpened(FileSystem(path), path, extract_mode, now)]

\* parse_file
ParseFile(path, extract_mode, now) == ParsedFiles[path, extract_mode, now]

(***************************************************************************)
(* MemoryUploader: what one call computes before it reaches the backend.   *)
(***************************************************************************)
\* if option:  for an Optional[str]
Given(o) == o # None /\ The(o) # ""

\* The entries for the processing options, were infer tested like the
\* strings are (if infer:).
OptionEntriesInferTruthy(opts) ==
    Update(Update(Update(
        IF Given(opts.custom_instructions)
        THEN "custom_instructions" :> The(opts.custom_instructions) ELSE <<>>,
        IF Given(opts.includes) THEN "includes" :> The(opts.includes) ELSE <<>>),
        IF Given(opts.excludes) THEN "excludes" :> The(opts.excludes) ELSE <<>>),
        IF opts.infer = Some(TRUE) THEN "infer" :> TRUE ELSE <<>>)

\* The entries upload_text and upload_file add for the processing options,
\* to the metadata and to the parameters of add alike.
OptionEntries(opts) ==
    Update(Update(Update(
        IF Given(opts.custom_instructions)
        THEN "custom_instructions" :> The(opts.custom_instructions) ELSE <<>>,
        IF Given(opts.includes) THEN "includes" :> The(opts.includes) ELSE <<>>),
        IF Given(opts.excludes) THEN "excludes" :> The(opts.excludes) ELSE <<>>),
        IF opts.infer # None THEN "infer" :> The(opts.infer) ELSE <<>>)

NoOptions ==
    [custom_instructions |-> None, includes |-> None, excludes |-> None,
     infer |-> None]

AddParams(user_id, opts, metadata) ==
    Update(Update([user_id |-> user_id, version |-> "v2"], OptionEntries(opts)),
           IF DOMAIN metadata # {} THEN "metadata" :> metadata ELSE <<>>)

AddCall(messages, params) == [messages |-> messages, params |-> params]

UploadFields(upload_time, user_id, extract_mode) ==
    [upload_time |-> IsoFormat(upload_time), user_id |-> user_id,
     extract_mode |-> extract_mode]

\* The three upload fields are written last, over the caller's entries.
TextMetadataFieldsLast(upload_time, user_id, extract_mode, parsed_metadata, metadata_arg) ==
    Update(Update(parsed_metadata,
                  IF metadata_arg = None THEN <<>> ELSE The(metadata_arg)),
           UploadFields(upload_time, user_id, extract_mode))

\* final_metadata of upload_text, before the processing options
TextMetadata(upload_time, user_id, extract_mode, parsed_metadata, metadata_arg) ==
    Update(Update(UploadFields(upload_time, user_id, extract_mode),
                  parsed_metadata),
           IF metadata_arg = None THEN <<>> ELSE The(metadata_arg))

\* final_metadata of upload_text when add is called
TextFinalMetadata(content, user_id, extract_mode, metadata_arg, opts, t_parse, t_upload) ==
    Update(TextMetadata(t_upload, user_id, extract_mode,
                        ParsePlainText(content, extract_mode, t_parse).metadata,
                        metadata_arg),
           OptionEntries(opts))

\* upload_text up to the call of add
TextLocal(content, user_id, extract_mode, metadata_arg, opts, t_parse, t_upload) ==
    AddCall(ParsePlainText(content, extract_mode, t_parse).messages,
            AddParams(user_id, opts,
                      TextFinalMetadata(content, user_id, extract_mode,
                                        metadata_arg, opts, t_parse, t_upload)))

\* upload_file: the mapping parse_file returned, after metadata.update(...)
\* and the entries of the options were written into it
FileMetadata(metadata, user_id, extract_mode, opts, t_upload) ==
    Update(Update(metadata, UploadFields(t_upload, user_id, extract_mode)),
           OptionEntries(opts))

\* upload_file from the parser's answer to the call of add.  `returned` is
\* the parser's mapping as it came back and `metadata` what the same object
\* holds when add is called.
FileCall(parsed, user_id, extract_mode, opts, t_upload) ==
    IF ~ parsed.ok THEN [ok |-> FALSE, error |-> parsed.error]
    ELSE [ok |-> TRUE,
          returned |-> parsed.metadata,
          metadata |-> FileMetadata(parsed.metadata, user_id, extract_mode,
                                    opts, t_upload),
          call |-> AddCall(parsed.messages,
                     AddParams(user_id, opts,
                        FileMetadata(parsed.metadata, user_id, extract_mode,
                                     opts, t_upload)))]

\* upload_file up to the call of add, were the size of the file not checked.
FileLocalNoSizeCheck(path, user_id, extract_mode, opts, t_parse, t_upload) ==
    IF ~ FileSystem(path).exists
    THEN [ok |-> FALSE,
          error |-> Error("FileNotFoundError", <<"File not found: ", path>>)]
    ELSE FileCall(ParseFile(path, extract_mode, t_parse), user_id, extract_mode,
                  opts, t_upload)

\* upload_file up to the call of add: the call, or the error raised
FileLocal(path, user_id, extract_mode, opts, t_parse, t_upload) ==
    IF ~ FileSystem(path).exists
    THEN [ok |-> FALSE,
          error |-> Error("FileNotFoundError", <<"File not found: ", path>>)]
    ELSE IF FileSystem(path).size > MaxFileSizeMb * BytesPerMb
    THEN [ok |-> FALSE,
          error |-> Error("ValueError",
                          <<"File too large: ", FileSystem(path).size>>)]
    ELSE FileCall(ParseFile(path, extract_mode, t_parse), user_id, extract_mode,
                  opts, t_upload)

\* The backend's add: it stores and answers, or it fails.
AddResponses(call) ==
    { [ok |-> FALSE, error |-> Error("BackendError", "add failed")],
      [ok |-> TRUE, result |-> [results |-> <<"added", Len(call.messages)>>]] }

\* One entry of upload_batch's list.
BatchSuccess(file_path, r) ==
    [file |-> file_path, status |-> "success", result |-> r]
BatchError(file_path, e) ==
    [file |-> file_path, status |-> "error", error |-> StrOf(e)]

(***************************************************************************)
(* State.                                                                  *)
(***************************************************************************)
VARIABLES
    store,              \* the backend's records, in storage order
    op,                 \* the MemorySearcher method running, or "idle"
    pc,                 \* where it is
    args,               \* its arguments after defaulting, and what it read
    calls,              \* the backend calls it has made, in order
    resps,              \* for each call that came back: TRUE iff it succeeded
    week_memories,      \* locals of search_weekly_report_data
    related_memories,
    result,             \* how the method ended
    c_today,            \* the week arithmetic alone: datetime.now(),
    c_weeks_back,       \*   weeks_back,
    c_window,           \*   and <<week_start, week_end>> once computed
    f_user,             \* a time-range filter alone: the user,
    f_start,            \*   the first and
    f_end,              \*   the last day of the range,
    f_filter,           \*   the filter search_by_time_range sends for them,
    f_day,              \*   the day and
    f_owner,            \*   the user of a record read against it,
    f_verdict,          \*   and whether the backend accepts that record
    clock,              \* the latest reading of datetime.now()
    u_op,               \* the MemoryUploader method running, or "idle"
    u_pc,               \* where it is
    u_args,             \* its arguments as the caller passed them
    u_locals,           \* user_id, extract_mode and upload_time as computed,
                        \*   the parser's mapping as it was returned and as
                        \*   the same object is when add is called
    u_attempted,        \* the paths upload_file was called with, in order
    u_adds,             \* the calls of the backend's add, in order
    u_resps,            \* the backend's answers to them
    u_results,          \* upload_batch's list
    u_result,           \* how the method ended
    p_fn,               \* a FileParser function alone: its name,
    p_in,               \*   its input,
    p_out               \*   and what it returned or raised

searchVars == <<store, op, pc, args, calls, resps, week_memories,
                related_memories, result>>
weekVars == <<c_today, c_weeks_back, c_window>>
filterVars == <<f_user, f_start, f_end, f_filter, f_day, f_owner, f_verdict>>

uploadVars == <<clock, u_op, u_pc, u_args, u_locals, u_attempted, u_adds,
                u_resps, u_results, u_result>>

parseVars == <<p_fn, p_in, p_out>>

vars == <<searchVars, weekVars, filterVars, uploadVars, parseVars>>

notSearchVars == <<weekVars, filterVars, uploadVars, parseVars>>
notWeekVars == <<searchVars, filterVars, uploadVars, parseVars>>
notFilterVars == <<searchVars, weekVars, uploadVars, parseVars>>
notUploadVars == <<searchVars, weekVars, filterVars, parseVars>>
notParseVars == <<searchVars, weekVars, filterVars, uploadVars>>

NoResult == [kind |-> "none"]
Return(v) == [kind |-> "return", value |-> v]
Raise(e) == [kind |-> "raise", error |-> e]

SearchIdle ==
    /\ op = "idle"
    /\ pc = "idle"
    /\ args = <<>>
    /\ calls = <<>>
    /\ resps = <<>>
    /\ week_memories = <<>>
    /\ related_memories = <<>>
    /\ result = NoResult

WeekUnused == c_today = 0 /\ c_weeks_back = 0 /\ c_window = <<>>

FilterUnused ==
    /\ f_user = "" /\ f_start = 0 /\ f_end = 0 /\ f_filter = <<>>
    /\ f_day = 0 /\ f_owner = "" /\ f_verdict = FALSE

UploadIdle ==
    /\ u_op = "idle"
    /\ u_pc = "idle"
    /\ u_args = <<>>
    /\ u_locals = <<>>
    /\ u_attempted = <<>>
    /\ u_adds = <<>>
    /\ u_resps = <<>>
    /\ u_results = <<>>
    /\ u_result = NoResult

ParseUnused == p_fn = "" /\ p_in = <<>> /\ p_out = NoResult

UploadUnused == clock = 1 /\ UploadIdle

SearchInit ==
    /\ store \in Stores
    /\ SearchIdle
    /\ WeekUnused
    /\ FilterUnused
    /\ UploadUnused
    /\ ParseUnused
    /\ ParseUnused

LastCall == calls[Len(calls)]

\* The method ends: it returns v or raises e.
Ends(r) == pc' = "done" /\ result' = r

(***************************************************************************)
(* search_by_query                                                         *)
(***************************************************************************)
SearchByQuery(query, user_arg, limit_arg, filters_arg) ==
    LET user_id == OrElse(user_arg, DefaultUserId)
        limit == OrElseInt(limit_arg, SearchDefaultLimit)
    IN  /\ pc = "idle"
        /\ op' = "search_by_query"
        /\ args' = [user_id |-> user_id, filters |-> filters_arg]
        /\ calls' = <<QueryCall(query, user_id, limit, filters_arg)>>
        /\ pc' = "q_search"
        /\ UNCHANGED <<store, resps, week_memories, related_memories, result, notSearchVars>>

QueryReturns ==
    /\ pc = "q_search"
    /\ \E r \in BackendResponses(store, LastCall) :
        /\ resps' = Append(resps, r.ok)
        /\ Ends(IF r.ok THEN Return(r.records) ELSE Raise("BackendError"))
    /\ UNCHANGED <<store, op, args, calls, week_memories, related_memories, notSearchVars>>

(***************************************************************************)
(* search_by_time_range                                                    *)
(***************************************************************************)
SearchByTimeRange(now, days_back, start_arg, end_arg, user_arg, query, limit_arg) ==
    LET user_id == OrElse(user_arg, DefaultUserId)
        limit == OrElseInt(limit_arg, SearchDefaultLimit)
        dates == TimeRangeDates(now, days_back, start_arg, end_arg)
    IN  /\ pc = "idle"
        /\ op' = "search_by_time_range"
        /\ args' = [user_id |-> user_id, days_back |-> days_back,
                    start_date |-> dates[1], end_date |-> dates[2]]
        /\ IF TimeRangeInvalid(days_back, start_arg, end_arg)
           THEN /\ Ends(Raise("ValueError"))
                /\ UNCHANGED calls
           ELSE /\ calls' = <<TimeRangeCall(user_id, The(dates[1]), The(dates[2]),
                                            query, limit)>>
                /\ pc' = "t_call"
                /\ UNCHANGED result
        /\ UNCHANGED <<store, resps, week_memories, related_memories, notSearchVars>>

TimeRangeReturns ==
    /\ pc = "t_call"
    /\ \E r \in BackendResponses(store, LastCall) :
        /\ resps' = Append(resps, r.ok)
        /\ Ends(IF r.ok THEN Return(r.records) ELSE Raise("BackendError"))
    /\ UNCHANGED <<store, op, args, calls, week_memories, related_memories, notSearchVars>>

(***************************************************************************)
(* search_weekly_report_data                                               *)
(***************************************************************************)
WeeklyReport(a, wm, rm) ==
    [week_start |-> StrfDate(a.week_start),
     week_end |-> StrfDate(a.week_end),
     week_memories |-> wm,
     related_memories |-> rm,
     summary |-> [total_current |-> Len(wm), total_related |-> Len(rm)]]

SearchWeeklyReportData(now, weeks_back, user_arg) ==
    LET user_id == OrElse(user_arg, DefaultUserId)
        week_start == WeekStart(now, weeks_back)
        week_end == WeekEnd(week_start)
    IN  /\ pc = "idle"
        /\ op' = "search_weekly_report_data"
        /\ args' = [user_id |-> user_id, today |-> now, weeks_back |-> weeks_back,
                    week_start |-> week_start, week_end |-> week_end]
        /\ calls' = <<TimeRangeCall(user_id, StrfDate(week_start),
                                    StrfDate(week_end), None, SearchMaxLimit)>>
        /\ pc' = "w_week"
        /\ UNCHANGED <<store, resps, week_memories, related_memories, result, notSearchVars>>

\* (mutant) a failed week-window call is taken for an empty week.
WeekReturnsSwallowsFailure ==
    /\ pc = "w_week"
    /\ \E r \in BackendResponses(store, LastCall) :
        /\ resps' = Append(resps, r.ok)
        /\ week_memories' = r.records
        /\ IF WantsRelated(r.records)
           THEN /\ calls' = Append(calls, RelatedCall(r.records,
                                      args.user_id, args.week_start))
                /\ pc' = "w_related"
                /\ UNCHANGED result
           ELSE /\ Ends(Return(WeeklyReport(args, r.records, <<>>)))
                /\ UNCHANGED calls
    /\ UNCHANGED <<store, op, args, related_memories, notSearchVars>>

WeekReturns ==
    /\ pc = "w_week"
    /\ \E r \in BackendResponses(store, LastCall) :
        /\ resps' = Append(resps, r.ok)
        /\ IF ~ r.ok
           THEN /\ Ends(Raise("BackendError"))
                /\ UNCHANGED <<calls, week_memories>>
           ELSE /\ week_memories' = r.records
                /\ IF WantsRelated(r.records)
                   THEN /\ calls' = Append(calls, RelatedCall(r.records,
                                              args.user_id, args.week_start))
                        /\ pc' = "w_related"
                        /\ UNCHANGED result
                   ELSE /\ Ends(Return(WeeklyReport(args, r.records, <<>>)))
                        /\ UNCHANGED calls
    /\ UNCHANGED <<store, op, args, related_memories, notSearchVars>>

RelatedReturns ==
    /\ pc = "w_related"
    /\ \E r \in BackendResponses(store, LastCall) :
        /\ resps' = Append(resps, r.ok)
        /\ IF ~ r.ok
           THEN /\ Ends(Raise("BackendError"))
                /\ UNCHANGED related_memories
           ELSE /\ related_memories' = r.records
                /\ Ends(Return(WeeklyReport(args, week_memories, r.records)))
    /\ UNCHANGED <<store, op, args, calls, week_memories, notSearchVars>>


(***************************************************************************)
(* search_related_to_content                                               *)
(***************************************************************************)
ExcludeArgs ==
    {None, Some(<<>>),
     Some([start |-> StrfDate(24)]),
     Some([end |-> StrfDate(24)]),
     Some([start |-> StrfDate(24), end |-> StrfDate(24)])}

SearchRelatedToContent(content, user_arg, exclude_time_range, limit_arg) ==
    LET user_id == OrElse(user_arg, DefaultUserId)
        limit == OrElseInt(limit_arg, SearchDefaultLimit)
    IN  /\ pc = "idle"
        /\ op' = "search_related_to_content"
        /\ args' = [user_id |-> user_id, exclude_time_range |-> exclude_time_range]
        /\ calls' = <<Call("search", Some(Take(content, QueryMaxLen)),
                           ExclusionFilters(user_id, exclude_time_range), limit)>>
        /\ pc' = "r_search"
        /\ UNCHANGED <<store, resps, week_memories, related_memories, result, notSearchVars>>

RelatedToContentReturns ==
    /\ pc = "r_search"
    /\ \E r \in BackendResponses(store, LastCall) :
        /\ resps' = Append(resps, r.ok)
        /\ Ends(IF r.ok THEN Return(r.records) ELSE Raise("BackendError"))
    /\ UNCHANGED <<store, op, args, calls, week_memories, related_memories, notSearchVars>>

(***************************************************************************)
(* get_user_stats                                                          *)
(***************************************************************************)
\* The records grouped by metadata.get(key, 'unknown'): a store record
\* carries no metadata, so every record counts as 'unknown'.
GroupCounts(records) ==
    IF records = <<>> THEN <<>> ELSE [unknown |-> Len(records)]

GetUserStats(now, user_arg) ==
    LET user_id == OrElse(user_arg, DefaultUserId)
    IN  /\ pc = "idle"
        /\ op' = "get_user_stats"
        /\ args' = [user_id |-> user_id, today |-> now]
        /\ calls' = <<Call("get_all", None, StatsFilters(user_id), StatsLimit)>>
        /\ pc' = "s_all"
        /\ UNCHANGED <<store, resps, week_memories, related_memories, result, notSearchVars>>

StatsAllReturns ==
    /\ pc = "s_all"
    /\ \E r \in BackendResponses(store, LastCall) :
        /\ resps' = Append(resps, r.ok)
        /\ IF ~ r.ok
           THEN /\ Ends(Raise("BackendError"))
                /\ UNCHANGED <<calls, week_memories>>
           ELSE \* all_memories is kept in week_memories
                /\ week_memories' = r.records
                /\ calls' = Append(calls,
                      TimeRangeCall(args.user_id,
                                    StrfDate(args.today - StatsDaysBack),
                                    StrfDate(args.today), None, StatsLimit))
                /\ pc' = "s_recent"
                /\ UNCHANGED result
    /\ UNCHANGED <<store, op, args, related_memories, notSearchVars>>

StatsRecentReturns ==
    /\ pc = "s_recent"
    /\ \E r \in BackendResponses(store, LastCall) :
        /\ resps' = Append(resps, r.ok)
        /\ Ends(IF r.ok
                THEN Return([user_id |-> args.user_id,
                             total_memories |-> Len(week_memories),
                             recent_memories_7d |-> Len(r.records),
                             sources |-> GroupCounts(week_memories),
                             extract_modes |-> GroupCounts(week_memories)])
                ELSE Raise("BackendError"))
    /\ UNCHANGED <<store, op, args, calls, week_memories, related_memories, notSearchVars>>

(***************************************************************************)
(* The caller takes the result and the searcher is ready for the next call.*)
(***************************************************************************)
SearchDone ==
    /\ pc = "done"
    /\ op' = "idle"
    /\ pc' = "idle"
    /\ args' = <<>>
    /\ calls' = <<>>
    /\ resps' = <<>>
    /\ week_memories' = <<>>
    /\ related_memories' = <<>>
    /\ result' = NoResult
    /\ UNCHANGED <<store, notSearchVars>>

SearchNext ==
    \/ \E u \in UserArgs, l \in LimitArgs,
          f \in {None, Some(<<>>), Some(HistoryFilter(24))} :
            SearchByQuery(<<97, 98>>, u, l, f)
    \/ QueryReturns
    \/ \E now \in Todays, db \in DaysBackArgs, u \in UserArgs, q \in QueryArgs :
            SearchByTimeRange(now, db, None, None, u, q, None)
    \/ \E s \in DateArgs, e \in DateArgs, u \in UserArgs :
            SearchByTimeRange(31, None, s, e, u, None, None)
    \/ TimeRangeReturns
    \/ \E now \in Todays, wb \in 0 .. MaxWeeksBack, u \in UserArgs :
            SearchWeeklyReportData(now, wb, u)
    \/ WeekReturns
    \/ RelatedReturns
    \/ \E u \in UserArgs, x \in ExcludeArgs :
            SearchRelatedToContent(<<97, 98>>, u, x, None)
    \/ RelatedToContentReturns
    \/ \E now \in Todays, u \in UserArgs : GetUserStats(now, u)
    \/ StatsAllReturns
    \/ StatsRecentReturns
    \/ SearchDone

SearchSpec == SearchInit /\ [][SearchNext]_vars


(***************************************************************************)
(* The week arithmetic of search_weekly_report_data alone, over every      *)
(* weekday.                                                                *)
(***************************************************************************)
WeekInit ==
    /\ c_today \in WeekTodays
    /\ c_weeks_back \in 0 .. MaxWeeksBack
    /\ c_window = <<>>
    /\ store = <<>>
    /\ SearchIdle
    /\ FilterUnused
    /\ UploadUnused
    /\ ParseUnused

ComputeWeek ==
    /\ c_window = <<>>
    /\ c_window' = <<WeekStart(c_today, c_weeks_back),
                     WeekEnd(WeekStart(c_today, c_weeks_back))>>
    /\ UNCHANGED <<c_today, c_weeks_back, notWeekVars>>

WeekNext == ComputeWeek

WeekSpec == WeekInit /\ [][WeekNext]_vars


(***************************************************************************)
(* The filter of search_by_time_range alone, read by the backend against   *)
(* one record.                                                             *)
(***************************************************************************)
\* 12-09, 12-10, 12-30, 12-31, 01-01, 01-09, 01-10, 01-31, 02-01, 02-09.
FilterDays == {8, 9, 29, 30, 31, 39, 40, 61, 62, 70}

FilterInit ==
    /\ f_user \in Users
    /\ f_start \in FilterDays
    /\ f_end \in FilterDays
    /\ f_filter = <<>>
    /\ f_day = 0
    /\ f_owner = ""
    /\ f_verdict = FALSE
    /\ store = <<>>
    /\ SearchIdle
    /\ WeekUnused
    /\ UploadUnused
    /\ ParseUnused

ReadTimeFilter(owner, day) ==
    LET call == TimeRangeCall(f_user, StrfDate(f_start), StrfDate(f_end),
                              None, SearchDefaultLimit)
    IN  /\ f_filter = <<>>
        /\ f_filter' = call.filters
        /\ f_owner' = owner
        /\ f_day' = day
        /\ f_verdict' = Matches(call.filters,
                                [user_id |-> owner, created_at |-> StrfDate(day)])
        /\ UNCHANGED <<f_user, f_start, f_end, notFilterVars>>

FilterNext == \E owner \in Users, day \in FilterDays : ReadTimeFilter(owner, day)

FilterSpec == FilterInit /\ [][FilterNext]_vars

(***************************************************************************)
(* The filter of search_related_to_content alone, for the excluded range   *)
(* f_start .. f_end, read by the backend against one record.               *)
(***************************************************************************)
ExclusionInit == FilterInit

ReadExclusionFilter(owner, day) ==
    /\ f_filter = <<>>
    /\ f_filter' = ExclusionFilters(f_user, Some([start |-> StrfDate(f_start),
                                                  end |-> StrfDate(f_end)]))
    /\ f_owner' = owner
    /\ f_day' = day
    /\ f_verdict' = Matches(f_filter',
                            [user_id |-> owner, created_at |-> StrfDate(day)])
    /\ UNCHANGED <<f_user, f_start, f_end, notFilterVars>>

ExclusionNext ==
    \E owner \in Users, day \in FilterDays : ReadExclusionFilter(owner, day)

ExclusionSpec == ExclusionInit /\ [][ExclusionNext]_vars

(***************************************************************************)
(* parse_json_chat alone, on what json.loads makes of the content.         *)
(***************************************************************************)
\* An entry of a JSON object that may be absent.
Entry(key, o) == IF o = None THEN <<>> ELSE key :> The(o)

\* hi, " hi ", a blank
TxtHi == <<104, 105>>
TxtHiPadded == <<32, 104, 105, 32>>
TxtBlank == <<32, 9>>

\* Elements of the messages array: a string, null, an object without
\* content, contents that are empty, blank, null, zero and false, good
\* contents with and without a role, a content and a role that are not
\* strings.
JsonElements ==
    { JStr(TxtHi),
      JNull,
      JDict([role |-> JStr(<<66, 111, 116>>)]),
      JDict([content |-> JStr(<<>>)]),
      JDict([content |-> JStr(TxtBlank)]),
      JDict([content |-> JNull]),
      JDict([content |-> JNum(0, 0)]),
      JDict([content |-> JBool(FALSE)]),
      JDict([content |-> JStr(TxtHi)]),
      JDict([role |-> JStr(<<66, 111, 116>>), content |-> JStr(TxtHiPadded)]),
      JDict([content |-> JNum(5, 0)]),
      JDict([role |-> JNull, content |-> JStr(TxtHi)]) }

JsonLists == UNION { [1 .. n -> JsonElements] : n \in 0 .. MaxMessages }

\* What "messages" holds: nothing, a string, an object, a list.
JsonMessagesValues ==
    {None, Some(JStr(TxtHi)), Some(JDict([content |-> JStr(TxtHi)]))}
        \cup { Some(JList(l)) : l \in JsonLists }

\* What "created" holds: nothing, 1e12 (a date of 2001), true, 1e18 and
\* -1e15 (years out of range), 1e20 and 1e30 (beyond localtime and time_t),
\* a string, null.
JsonCreatedValues ==
    {None, Some(JNum(1, 12)), Some(JBool(TRUE)), Some(JNum(1, 18)),
     Some(JNum(-1, 15)), Some(JNum(1, 20)), Some(JNum(1, 30)),
     Some(JStr(TxtHi)), Some(JNull)}

JsonUpdatedValues == {None, Some(JNum(2, 12)), Some(JNum(-1, 20))}

JsonTitleValues == {None, Some(JStr(TxtHi))}

\* Decoded objects.
JsonObjects ==
    { JDict(Entry("title", t) @@ Entry("created", c) @@ Entry("updated", u)
            @@ Entry("messages", m)) :
        t \in JsonTitleValues, c \in JsonCreatedValues, u \in JsonUpdatedValues,
        m \in JsonMessagesValues }

\* Decoded values that are no objects: null, a number, a boolean, strings
\* without and with a key in them, arrays without and with a key in them.
JsonOthers ==
    { JNull, JNum(5, 0), JBool(TRUE), JStr(TxtHi), JStr(KeyText("messages")),
      JList(<<>>), JList(<<JStr(TxtHi)>>), JList(<<JStr(KeyText("title"))>>) }

\* What json.loads gives: a decode error, or a value.
JsonLoaded ==
    { [ok |-> FALSE, value |-> JNull] }
        \cup { [ok |-> TRUE, value |-> v] : v \in JsonObjects \cup JsonOthers }

JsonInit ==
    /\ p_fn = "parse_json_chat"
    /\ p_in \in JsonLoaded
    /\ p_out = NoResult
    /\ store = <<>>
    /\ SearchIdle
    /\ WeekUnused
    /\ FilterUnused
    /\ UploadUnused

\* The outcome of a parser call as the caller sees it.
Outcome(parsed) ==
    IF parsed.ok
    THEN Return([messages |-> parsed.messages, metadata |-> parsed.metadata])
    ELSE Raise(parsed.error)

CallParseJsonChat ==
    /\ p_fn = "parse_json_chat"
    /\ p_out = NoResult
    /\ p_out' = Outcome(ParseJsonLoaded(p_in, 1))
    /\ UNCHANGED <<p_fn, p_in, notParseVars>>

JsonNext == CallParseJsonChat

JsonSpec == JsonInit /\ [][JsonNext]_vars

(***************************************************************************)
(* parse_markdown_chat and detect_content_type as pure functions: one call *)
(* of either with a text made of at most MaxFragments pieces, the pieces   *)
(* being speaker marks of each kind, a role word, a body, a newline and a  *)
(* letter:  **Bot:**  |  ## Bot\n  |  Bot:  |  [Bot]  |  bot␣  |  ␣hi  |   *)
(* \n  |  x                                                                *)
(***************************************************************************)
Fragments ==
    { <<42, 42, 66, 111, 116, 58, 42, 42>>, <<35, 35, 32, 66, 111, 116, 10>>,
      <<66, 111, 116, 58>>, <<91, 66, 111, 116, 93>>, <<98, 111, 116, 32>>,
      <<32, 104, 105>>, <<10>>, <<120>> }

FragmentLists ==
    UNION { [1 .. n -> Fragments] : n \in 0 .. MaxFragments }

MarkdownTexts == { Join(<<>>, parts) : parts \in FragmentLists }

MarkdownInit ==
    /\ p_fn \in {"parse_markdown_chat", "detect_content_type"}
    /\ p_in \in MarkdownTexts
    /\ p_out = NoResult
    /\ store = <<>>
    /\ SearchIdle
    /\ WeekUnused
    /\ FilterUnused
    /\ UploadUnused

\* parse_markdown_chat(content); with what it returns, the patterns it ran.
CallParseMarkdownChat ==
    /\ p_fn = "parse_markdown_chat"
    /\ p_out = NoResult
    /\ p_out' = [evaluated |-> PatternsEvaluated(p_in)]
                    @@ Outcome(ParseMarkdownChat(p_in, 1))
    /\ UNCHANGED <<p_fn, p_in, notParseVars>>

\* detect_content_type(content)
CallDetectContentType ==
    /\ p_fn = "detect_content_type"
    /\ p_out = NoResult
    /\ p_out' = Return(DetectContentType(p_in, ""))
    /\ UNCHANGED <<p_fn, p_in, notParseVars>>

MarkdownNext == CallParseMarkdownChat \/ CallDetectContentType

MarkdownSpec == MarkdownInit /\ [][MarkdownNext]_vars

(***************************************************************************)
(* The related-history query of search_weekly_report_data as a function of *)
(* the records the week query returned: at most MaxWeekRecords records,    *)
(* each without a memory field or with the text ab, c, or 300 times x.     *)
(***************************************************************************)
WeekRecords ==
    { [user_id |-> "u1", created_at |-> StrfDate(23)] }
    \cup { [user_id |-> "u1", created_at |-> StrfDate(23), memory |-> text] :
             text \in {<<97, 98>>, <<99>>, [k \in 1 .. 300 |-> 120]} }

RelatedInit ==
    /\ p_fn = "search_weekly_report_data.related"
    /\ p_in \in UNION { [1 .. n -> WeekRecords] : n \in 0 .. MaxWeekRecords }
    /\ p_out = NoResult
    /\ store = <<>>
    /\ SearchIdle
    /\ WeekUnused
    /\ FilterUnused
    /\ UploadUnused

\* From the week's records to the related-history call, when one is made.
BuildRelatedCall ==
    /\ p_fn = "search_weekly_report_data.related"
    /\ p_out = NoResult
    /\ p_out' = Return(IF WantsRelated(p_in)
                       THEN Some(RelatedCall(p_in, "u1", 17))
                       ELSE None)
    /\ UNCHANGED <<p_fn, p_in, notParseVars>>

RelatedNext == BuildRelatedCall

RelatedSpec == RelatedInit /\ [][RelatedNext]_vars

(***************************************************************************)
(* _normalize_role as a pure function: one call on a label made of at most *)
(* MaxFragments pieces:  User  |  ME  |  AI  |  bot  |  ChatGPT  |  SYS  | *)
(* System  |  助手  |  x  |  a space                                       *)
(***************************************************************************)
RolePieces ==
    { <<85, 115, 101, 114>>, <<77, 69>>, <<65, 73>>, <<98, 111, 116>>,
      <<67, 104, 97, 116, 71, 80, 84>>, <<83, 89, 83>>,
      <<83, 121, 115, 116, 101, 109>>, <<21161, 25163>>, <<120>>, <<32>> }

RoleLabels ==
    { Join(<<>>, parts) :
        parts \in UNION { [1 .. n -> RolePieces] : n \in 0 .. MaxFragments } }

RoleInit ==
    /\ p_fn = "_normalize_role"
    /\ p_in \in RoleLabels
    /\ p_out = NoResult
    /\ store = <<>>
    /\ SearchIdle
    /\ WeekUnused
    /\ FilterUnused
    /\ UploadUnused

\* _normalize_role(role)
CallNormalizeRole ==
    /\ p_fn = "_normalize_role"
    /\ p_out = NoResult
    /\ p_out' = Return(NormalizeRole(p_in))
    /\ UNCHANGED <<p_fn, p_in, notParseVars>>

RoleNext == CallNormalizeRole

RoleSpec == RoleInit /\ [][RoleNext]_vars

(***************************************************************************)
(* parse_plain_text as a pure function, called twice on the same content,  *)
(* each time with an extract_mode of its own; p_out is the list of what    *)
(* the calls returned.                                                     *)
(***************************************************************************)
PlainModes == {"auto", "raw", "summary"}

PlainContents == MarkdownTexts \cup {<<>>, <<32>>, TxtPadded, <<10, 120, 9>>}

PlainInit ==
    /\ p_fn = "parse_plain_text"
    /\ p_in \in [content : PlainContents, modes : PlainModes \X PlainModes]
    /\ p_out = <<>>
    /\ store = <<>>
    /\ SearchIdle
    /\ WeekUnused
    /\ FilterUnused
    /\ UploadUnused

\* parse_plain_text(content, extract_mode): the next of the two calls
CallParsePlainText ==
    /\ p_fn = "parse_plain_text"
    /\ Len(p_out) < 2
    /\ p_out' = Append(p_out,
                       Outcome(ParsePlainText(p_in.content,
                                              p_in.modes[Len(p_out) + 1],
                                              Len(p_out) + 1)))
    /\ UNCHANGED <<p_fn, p_in, notParseVars>>

PlainNext == CallParsePlainText

PlainSpec == PlainInit /\ [][PlainNext]_vars

(***************************************************************************)
(* parse_file as a pure function: one call on a file named doc with one of *)
(* the suffixes.  The file holds a markdown text, a JSON chat, or a chat   *)
(* that is at or one past a limit of the .md rule, or has an export        *)
(* marker.                                                                 *)
(***************************************************************************)
Filler(n, c) == [k \in 1 .. n |-> c]

\* **Bot:** hi, a newline, then x up to n characters in all
ChatOfLen(n) == TxtBoldChat \o <<10>> \o Filler(n - Len(TxtBoldChat) - 1, 120)

\* **Bot:** hi followed by n newlines
ChatOfLines(n) == TxtBoldChat \o Filler(n, 10)

FileTexts ==
    MarkdownTexts
    \cup { TxtPlain, TxtJsonEmpty, TxtJsonChat, TxtJsonEchoes,
           MarkerEchoes \o <<10>> \o TxtBoldChat,
           TxtBoldChat \o <<10>> \o MarkerExported,
           ChatOfLen(MdMaxChars), ChatOfLen(MdMaxChars + 1),
           ChatOfLines(MdMaxNewlines), ChatOfLines(MdMaxNewlines + 1),
           TxtJsonChat \o Filler(MdMaxNewlines, 10),
           TxtJsonChat \o Filler(MdMaxNewlines + 1, 10),
           TxtJsonChat \o Filler(MdMaxChars - Len(TxtJsonChat), 32),
           TxtJsonChat \o Filler(MdMaxChars - Len(TxtJsonChat) + 1, 32) }

FileInit ==
    /\ p_fn = "parse_file"
    /\ p_in \in [path : {"doc.md", "doc.txt", "doc.json"},
                 file : { FileOf(text) : text \in FileTexts },
                 extract_mode : {"auto", "raw"}]
    /\ p_out = NoResult
    /\ store = <<>>
    /\ SearchIdle
    /\ WeekUnused
    /\ FilterUnused
    /\ UploadUnused

\* parse_file(file_path, extract_mode)
CallParseFile ==
    /\ p_fn = "parse_file"
    /\ p_out = NoResult
    /\ p_out' = Outcome(ParseOpened(p_in.file, p_in.path, p_in.extract_mode, 1))
    /\ UNCHANGED <<p_fn, p_in, notParseVars>>

FileNext == CallParseFile

FileSpec == FileInit /\ [][FileNext]_vars

(***************************************************************************)
(* MemoryUploader.  The files do not change while it runs.                 *)
(***************************************************************************)
\* ab, a blank, nothing
Contents == {TxtPlain, <<32>>, <<>>}
ModeArgs == {None, Some("raw")}

\* What a caller passes as metadata: nothing, an empty mapping, a note, an
\* entry the parser also writes, an entry named like an option, and the
\* three upload fields.
MetadataArgs ==
    { None,
      Some([k \in {} |-> ""]),
      Some([note |-> "n"]),
      Some([source |-> "caller"]),
      Some([infer |-> FALSE]),
      Some([upload_time |-> IsoFormat(0), user_id |-> "mallory",
            extract_mode |-> "forged"]) }

OptionArgs ==
    { NoOptions,
      [custom_instructions |-> Some(""), includes |-> Some(""),
       excludes |-> Some(""), infer |-> Some(FALSE)],
      [custom_instructions |-> Some("short"), includes |-> Some("facts"),
       excludes |-> Some("chat"), infer |-> Some(TRUE)] }

BatchArgs == UNION { [1 .. n -> Paths] : n \in 0 .. MaxFiles }

UploadInit ==
    /\ store = <<>>
    /\ SearchIdle
    /\ WeekUnused
    /\ FilterUnused
    /\ UploadUnused
    /\ ParseUnused

LastAdd == u_adds[Len(u_adds)]

UploadEnds(r) == u_pc' = "done" /\ u_result' = r

\* upload_text, to the call of add
UploadText(content, user_arg, extract_mode, metadata_arg, opts, t_parse, t_upload) ==
    LET user_id == OrElse(user_arg, DefaultUserId)
    IN  /\ u_pc = "idle"
        /\ clock <= t_parse /\ t_parse <= t_upload
        /\ clock' = t_upload
        /\ u_op' = "upload_text"
        /\ u_args' = [content |-> content, user_id |-> user_arg,
                      extract_mode |-> extract_mode, metadata |-> metadata_arg,
                      options |-> opts]
        /\ u_locals' = [user_id |-> user_id, extract_mode |-> extract_mode,
                        upload_time |-> t_upload,
                        parsed_returned |->
                            ParsePlainText(content, extract_mode, t_parse).metadata,
                        parsed_metadata |->
                            ParsePlainText(content, extract_mode, t_parse).metadata]
        /\ u_adds' = <<TextLocal(content, user_id, extract_mode, metadata_arg,
                                 opts, t_parse, t_upload)>>
        /\ u_pc' = "x_add"
        /\ UNCHANGED <<u_attempted, u_resps, u_results, u_result, notUploadVars>>

\* add comes back, were upload_text to call it once more after a failure.
TextAddRetries ==
    /\ u_pc = "x_add"
    /\ \E r \in AddResponses(LastAdd) :
        /\ u_resps' = Append(u_resps, r)
        /\ IF r.ok \/ Len(u_adds) > 1
           THEN /\ UploadEnds(IF r.ok THEN Return(r.result) ELSE Raise(r.error))
                /\ UNCHANGED u_adds
           ELSE /\ u_adds' = Append(u_adds, LastAdd)
                /\ UNCHANGED <<u_pc, u_result>>
    /\ UNCHANGED <<clock, u_op, u_args, u_locals, u_attempted, u_results,
                   notUploadVars>>

\* add comes back: upload_text returns its result or lets its error through
TextAddReturns ==
    /\ u_pc = "x_add"
    /\ \E r \in AddResponses(LastAdd) :
        /\ u_resps' = Append(u_resps, r)
        /\ UploadEnds(IF r.ok THEN Return(r.result) ELSE Raise(r.error))
    /\ UNCHANGED <<clock, u_op, u_args, u_locals, u_attempted, u_adds, u_results,
                   notUploadVars>>

\* upload_file, to the call of add or to the error of a local check
UploadFile(file_path, user_arg, mode_arg, opts, t_parse, t_upload) ==
    LET user_id == OrElse(user_arg, DefaultUserId)
        extract_mode == OrElse(mode_arg, DefaultExtractMode)
    IN  /\ u_pc = "idle"
        /\ clock <= t_parse /\ t_parse <= t_upload
        /\ u_op' = "upload_file"
        /\ u_args' = [file_path |-> file_path, user_id |-> user_arg,
                      extract_mode |-> mode_arg, options |-> opts]
        /\ u_attempted' = <<file_path>>
        /\ \E local \in {FileLocal(file_path, user_id, extract_mode, opts,
                                   t_parse, t_upload)} :
           IF local.ok
           THEN /\ clock' = t_upload
                /\ u_locals' = [user_id |-> user_id, extract_mode |-> extract_mode,
                                upload_time |-> t_upload,
                                parsed_returned |-> local.returned,
                                parsed_metadata |-> local.metadata]
                /\ u_adds' = <<local.call>>
                /\ u_pc' = "f_add"
                /\ UNCHANGED u_result
           ELSE /\ t_upload = clock
                /\ UploadEnds(Raise(local.error))
                /\ u_locals' = [user_id |-> user_id, extract_mode |-> extract_mode]
                /\ UNCHANGED <<clock, u_adds>>
        /\ UNCHANGED <<u_resps, u_results, notUploadVars>>

FileAddReturns ==
    /\ u_pc = "f_add"
    /\ \E r \in AddResponses(LastAdd) :
        /\ u_resps' = Append(u_resps, r)
        /\ UploadEnds(IF r.ok THEN Return(r.result) ELSE Raise(r.error))
    /\ UNCHANGED <<clock, u_op, u_args, u_locals, u_attempted, u_adds, u_results,
                   notUploadVars>>

\* upload_batch: results = []
UploadBatch(file_paths, user_arg, mode_arg) ==
    /\ u_pc = "idle"
    /\ u_op' = "upload_batch"
    /\ u_args' = [file_paths |-> file_paths, user_id |-> user_arg,
                  extract_mode |-> mode_arg]
    /\ u_pc' = "b_loop"
    /\ UNCHANGED <<clock, u_locals, u_attempted, u_adds, u_resps, u_results,
                   u_result, notUploadVars>>

\* The loop of upload_batch, were a failing local check to leave it.
BatchStepAborts(t_parse, t_upload) ==
    LET file_path == u_args.file_paths[Len(u_results) + 1]
        user_id == OrElse(u_args.user_id, DefaultUserId)
        extract_mode == OrElse(u_args.extract_mode, DefaultExtractMode)
    IN  /\ u_pc = "b_loop"
        /\ Len(u_results) < Len(u_args.file_paths)
        /\ clock <= t_parse /\ t_parse <= t_upload
        /\ u_attempted' = Append(u_attempted, file_path)
        /\ \E local \in {FileLocal(file_path, user_id, extract_mode, NoOptions,
                                   t_parse, t_upload)} :
           IF local.ok
           THEN /\ clock' = t_upload
                /\ u_adds' = Append(u_adds, local.call)
                /\ u_pc' = "b_add"
                /\ UNCHANGED <<u_results, u_result>>
           ELSE /\ t_upload = clock
                /\ UploadEnds(Raise(local.error))
                /\ UNCHANGED <<clock, u_adds, u_results>>
        /\ UNCHANGED <<u_op, u_args, u_locals, u_resps, notUploadVars>>

\* The loop of upload_batch takes the next path and calls upload_file with
\* it: upload_file reaches add, or a local check raises and the loop writes
\* the error down.
BatchStep(t_parse, t_upload) ==
    LET file_path == u_args.file_paths[Len(u_results) + 1]
        user_id == OrElse(u_args.user_id, DefaultUserId)
        extract_mode == OrElse(u_args.extract_mode, DefaultExtractMode)
    IN  /\ u_pc = "b_loop"
        /\ Len(u_results) < Len(u_args.file_paths)
        /\ clock <= t_parse /\ t_parse <= t_upload
        /\ u_attempted' = Append(u_attempted, file_path)
        /\ \E local \in {FileLocal(file_path, user_id, extract_mode, NoOptions,
                                   t_parse, t_upload)} :
           IF local.ok
           THEN /\ clock' = t_upload
                /\ u_adds' = Append(u_adds, local.call)
                /\ u_pc' = "b_add"
                /\ UNCHANGED u_results
           ELSE /\ t_upload = clock
                /\ u_results' = Append(u_results,
                                       BatchError(file_path, local.error))
                /\ UNCHANGED <<clock, u_adds, u_pc>>
        /\ UNCHANGED <<u_op, u_args, u_locals, u_resps, u_result, notUploadVars>>

\* add comes back inside upload_file: the loop writes the result or the
\* error down and goes on.
BatchAddReturns ==
    LET file_path == u_args.file_paths[Len(u_results) + 1]
    IN  /\ u_pc = "b_add"
        /\ \E r \in AddResponses(LastAdd) :
            /\ u_resps' = Append(u_resps, r)
            /\ u_results' = Append(u_results,
                                IF r.ok THEN BatchSuccess(file_path, r.result)
                                ELSE BatchError(file_path, r.error))
        /\ u_pc' = "b_loop"
        /\ UNCHANGED <<clock, u_op, u_args, u_locals, u_attempted, u_adds,
                       u_result, notUploadVars>>

\* The loop is over: return results.
BatchEnds ==
    /\ u_pc = "b_loop"
    /\ Len(u_results) = Len(u_args.file_paths)
    /\ UploadEnds(Return(u_results))
    /\ UNCHANGED <<clock, u_op, u_args, u_locals, u_attempted, u_adds, u_resps,
                   u_results, notUploadVars>>

\* The caller takes the result and the uploader is ready for the next call.
UploadDone ==
    /\ u_pc = "done"
    /\ u_op' = "idle"
    /\ u_pc' = "idle"
    /\ u_args' = <<>>
    /\ u_locals' = <<>>
    /\ u_attempted' = <<>>
    /\ u_adds' = <<>>
    /\ u_resps' = <<>>
    /\ u_results' = <<>>
    /\ u_result' = NoResult
    /\ UNCHANGED <<clock, notUploadVars>>

\* The metadata upload_text builds (the merge that follows the parse), built
\* twice from what one parse returned, the same metadata argument and the
\* same options, the clock read again for each build; p_out is the list of
\* what was built and when.
MergeInit ==
    /\ p_fn = "upload_text.final_metadata"
    /\ p_in \in [content : Contents, user_id : Users, extract_mode : Modes,
                 metadata : MetadataArgs \cup {Some([parsed_at |-> IsoFormat(0)])},
                 opts : OptionArgs, t_parse : Clocks]
    /\ p_out = <<>>
    /\ store = <<>>
    /\ SearchIdle
    /\ WeekUnused
    /\ FilterUnused
    /\ UploadUnused

BuildTextMetadata ==
    /\ p_fn = "upload_text.final_metadata"
    /\ Len(p_out) < 2
    /\ \E t_upload \in Clocks :
          /\ p_in.t_parse <= t_upload
          /\ p_out # <<>> => p_out[Len(p_out)].t_upload <= t_upload
          /\ p_out' = Append(p_out,
                 [t_upload |-> t_upload,
                  metadata |->
                      TextFinalMetadata(p_in.content, p_in.user_id,
                                        p_in.extract_mode, p_in.metadata,
                                        p_in.opts, p_in.t_parse, t_upload)])
    /\ UNCHANGED <<p_fn, p_in, notParseVars>>

MergeNext == BuildTextMetadata

MergeSpec == MergeInit /\ [][MergeNext]_vars

UploadNext ==
    \/ \E content \in Contents, user_arg \in UserArgs, extract_mode \in Modes,
          metadata_arg \in MetadataArgs, opts \in OptionArgs,
          t_parse \in Clocks, t_upload \in Clocks :
            UploadText(content, user_arg, extract_mode, metadata_arg, opts,
                       t_parse, t_upload)
    \/ TextAddReturns
    \/ \E file_path \in Paths, user_arg \in UserArgs, mode_arg \in ModeArgs,
          opts \in OptionArgs, t_parse \in Clocks, t_upload \in Clocks :
            UploadFile(file_path, user_arg, mode_arg, opts, t_parse, t_upload)
    \/ FileAddReturns
    \/ \E file_paths \in BatchArgs, user_arg \in UserArgs, mode_arg \in ModeArgs :
            UploadBatch(file_paths, user_arg, mode_arg)
    \/ \E t_parse \in Clocks, t_upload \in Clocks : BatchStep(t_parse, t_upload)
    \/ BatchAddReturns
    \/ BatchEnds
    \/ UploadDone

UploadSpec == UploadInit /\ [][UploadNext]_vars

(***************************************************************************)
(* Properties of MemorySearcher.                                           *)
(***************************************************************************)
Weekly == op = "search_weekly_report_data"

\* The week-window call of the running weekly report came back with records.
WeekCameBack == Weekly /\ Len(resps) >= 1 /\ resps[1]

\* Records a filter is read against: both users, every day of
\* 2023-12-01 .. 2024-01-31.
FilterRecords ==
    { [user_id |-> u, created_at |-> StrfDate(d)] : u \in Users, d \in 0 .. 61 }

\* The day a YYYY-MM-DD string of the calendar names.
DayOf(date) == CHOOSE d \in Days : StrfDate(d) = date

\* Some record among the first five has a memory text with a character that
\* is not whitespace.
SomeTextInFirstFive(records) ==
    \E i \in 1 .. Len(records) :
        /\ i <= 5
        /\ "memory" \in DOMAIN records[i]
        /\ \E j \in 1 .. Len(records[i].memory) : ~ IsSpace(records[i].memory[j])

\* C2: when the week-window call returns zero records, the weekly report
\* ends after that single get_all call, with related_memories = [] and
\* summary.total_related = 0; search() is never called.
C2_EmptyWeekNoSecondQuery ==
    (WeekCameBack /\ week_memories = <<>>) =>
        /\ Len(calls) = 1
        /\ calls[1].method = "get_all"
        /\ pc = "done"
        /\ result.kind = "return"
        /\ result.value.related_memories = <<>>
        /\ result.value.summary.total_related = 0

C2_Witness ==
    /\ WeekCameBack
    /\ week_memories = <<>>
    /\ store # <<>>
    /\ pc = "done"

\* C3: in a weekly report the backend calls are sequential and ordered: at
\* most two calls, at most one of them not yet answered, the second one a
\* search() issued only after the get_all of the week came back with
\* success; and when the first call fails there is no second call and the
\* report raises the backend's error.
C3_CallsSequentialAndOrdered ==
    Weekly =>
        /\ Len(calls) <= 2
        /\ Len(resps) <= Len(calls)
        /\ Len(calls) <= Len(resps) + 1
        /\ calls[1].method = "get_all"
        /\ Len(calls) = 2 =>
              /\ calls[2].method = "search"
              /\ resps[1]
        /\ (Len(resps) >= 1 /\ ~ resps[1]) =>
              /\ Len(calls) = 1
              /\ pc = "done"
              /\ result = Raise("BackendError")

C3_Witness ==
    /\ Weekly
    /\ pc = "done"
    /\ Len(calls) = 2
    /\ resps = <<TRUE, TRUE>>

C5_HistoryPredatesWeek ==
    (Weekly /\ Len(calls) = 2) =>
        /\ calls[2].filters =
              [AND |-> << [user_id |-> args.user_id],
                          [created_at |->
                              [lt |-> calls[1].filters.AND[2].created_at.gte]] >>]
        /\ calls[1].filters.AND[1] = [user_id |-> args.user_id]
        /\ \A r \in FilterRecords :
              ~ (Matches(calls[1].filters, r) /\ Matches(calls[2].filters, r))
        /\ \A i \in 1 .. Len(related_memories) :
              DayOf(related_memories[i].created_at) < args.week_start

C5_Witness ==
    /\ Weekly
    /\ pc = "done"
    /\ Len(week_memories) = 1
    /\ Len(related_memories) = 1
    /\ DayOf(week_memories[1].created_at) = args.week_start
    /\ DayOf(related_memories[1].created_at) = args.week_start - 1

\* C8 as claimed: every filter a MemorySearcher method passes to the
\* backend is an outer AND with the branch user_id == the effective user.
UserScopedAnd(f, user_id) ==
    /\ DOMAIN f = {"AND"}
    /\ \E i \in 1 .. Len(f.AND) : f.AND[i] = [user_id |-> user_id]

C8_EveryFilterUserScopedAnd ==
    \A i \in 1 .. Len(calls) : UserScopedAnd(calls[i].filters, args.user_id)

\* C9 as claimed: search_by_time_range with explicit start_date > end_date
\* raises a validation error without calling the backend.
InvertedRange ==
    /\ op = "search_by_time_range"
    /\ args.days_back = None
    /\ args.start_date # None
    /\ args.end_date # None
    /\ StrLt(The(args.end_date), The(args.start_date))

C9_InvertedRangeFailsFast ==
    InvertedRange =>
        /\ calls = <<>>
        /\ pc = "done"
        /\ result = Raise("ValueError")

\* search_related_to_content has sent its search.
RelatedToContentSent == op = "search_related_to_content" /\ calls # <<>>

\* The exclusion mapping was passed and holds both start and end.
BothEnds(exclude_time_range) ==
    /\ exclude_time_range # None
    /\ {"start", "end"} \subseteq DOMAIN The(exclude_time_range)

\* C30: search_related_to_content adds the NOT branch only for an exclusion
\* mapping that holds both start and end; for a mapping with one of the two
\* keys or with none (and when none is passed) it raises nothing of its own,
\* its filter is the user_id predicate alone, and no record of the user is
\* kept from the search.
C30_ExclusionNeedsBothEnds ==
    RelatedToContentSent =>
        \E x \in {args.exclude_time_range}, f \in {calls[1].filters} :
            IF BothEnds(x)
            THEN f = [AND |-> << [user_id |-> args.user_id],
                                 [NOT |-> << [created_at |->
                                     [gte |-> The(x)["start"],
                                      lte |-> The(x)["end"]]] >>] >>]
            ELSE /\ f = [AND |-> << [user_id |-> args.user_id] >>]
                 /\ \A k \in 1 .. Len(store) :
                        store[k].user_id = args.user_id => Matches(f, store[k])
                 /\ (pc = "done" /\ result.kind = "raise") => resps = <<FALSE>>

\* With a mapping that holds only start = 2023-12-25 the search returned the
\* user's record of that day.
C30_Witness ==
    /\ RelatedToContentSent
    /\ args.exclude_time_range = Some([start |-> StrfDate(24)])
    /\ Len(calls[1].filters.AND) = 1
    /\ pc = "done"
    /\ result.kind = "return"
    /\ \E k \in 1 .. Len(result.value) :
          /\ result.value[k].user_id = args.user_id
          /\ result.value[k].created_at = StrfDate(24)

(***************************************************************************)
(* Properties of the week arithmetic.                                      *)
(***************************************************************************)
\* C6: for every weekday of today and every weeks_back >= 1, week_start is
\* a Monday, week_end is the Sunday six days later and lies before today;
\* with weeks_back = 1 no other whole Monday-Sunday week fits between
\* week_end and today, and the window is [today-7, today-1] exactly when
\* today is a Monday.
C6_CompletedMondayToSundayWeek ==
    (c_window # <<>> /\ c_weeks_back >= 1) =>
        LET week_start == c_window[1]
            week_end == c_window[2]
        IN  /\ Weekday(week_start) = 0
            /\ week_end = week_start + 6
            /\ Weekday(week_end) = 6
            /\ week_end < c_today
            /\ c_weeks_back = 1 =>
                  /\ week_end + 7 >= c_today
                  /\ (week_start = c_today - 7 /\ week_end = c_today - 1)
                        <=> (Weekday(c_today) = 0)

C6_Witness ==
    /\ c_window # <<>>
    /\ c_weeks_back = 1
    /\ Weekday(c_today) = 3
    /\ c_window[2] = c_today - 4


(***************************************************************************)
(* Properties of the time-range filter.                                    *)
(***************************************************************************)
\* C10: the filter search_by_time_range builds for user u and [start, end]
\* is AND[user_id == u, created_at {gte: start, lte: end}], and the backend
\* accepts a record under it exactly when the record is u's and its day is
\* neither before start nor after end.
C10_TimeFilterInclusiveRange ==
    f_filter # <<>> =>
        /\ f_filter =
              [AND |-> << [user_id |-> f_user],
                          [created_at |-> [gte |-> StrfDate(f_start),
                                           lte |-> StrfDate(f_end)]] >>]
        /\ f_verdict <=> (f_owner = f_user /\ f_start <= f_day /\ f_day <= f_end)

C10_Witness ==
    /\ f_filter # <<>>
    /\ f_start = 30
    /\ f_end = 39
    /\ f_day = 39
    /\ f_owner = f_user
    /\ f_verdict

(***************************************************************************)
(* Properties of the exclusion filter.                                     *)
(***************************************************************************)
\* C11: the filter search_related_to_content builds for user u and the
\* excluded range {start, end} is
\* AND[user_id == u, NOT[created_at {gte: start, lte: end}]], and the backend
\* accepts a record under it exactly when the record is u's and its day is
\* before start or after end.
C11_ExclusionIsSiblingNot ==
    f_filter # <<>> =>
        /\ f_filter =
              [AND |-> << [user_id |-> f_user],
                          [NOT |-> << [created_at |->
                                          [gte |-> StrfDate(f_start),
                                           lte |-> StrfDate(f_end)]] >>] >>]
        /\ f_verdict <=> (f_owner = f_user /\ (f_day < f_start \/ f_day > f_end))

\* The user's own record of the last excluded day is rejected.
C11_Witness ==
    /\ f_filter # <<>>
    /\ "NOT" \in DOMAIN f_filter.AND[2]
    /\ f_start = 30
    /\ f_end = 39
    /\ f_day = 39
    /\ f_owner = f_user
    /\ ~ f_verdict

(***************************************************************************)
(* Properties of parse_json_chat.                                          *)
(***************************************************************************)
JsonCalled == p_fn = "parse_json_chat" /\ p_out # NoResult

\* The decoded value is an object.
JsonObject == p_in.ok /\ p_in.value.t = "dict"

\* The decoded value is an object with a messages array.
JsonConversation ==
    /\ JsonObject
    /\ "messages" \in DOMAIN p_in.value.d
    /\ p_in.value.d["messages"].t = "list"

\* An element of the array that is no mapping, or whose content is missing,
\* null, empty or whitespace only.
BlankElement(el) ==
    \/ el.t # "dict"
    \/ "content" \notin DOMAIN el.d
    \/ el.d["content"].t = "null"
    \/ /\ el.d["content"].t = "str"
       /\ \A k \in 1 .. Len(el.d["content"].s) : IsSpace(el.d["content"].s[k])

\* A number neither localtime nor time_t can take.
Unconvertible(j) == j.t = "num" /\ ~ Within(j, 6, 19)

\* The parse gets as far as the messages: neither created nor updated is an
\* unconvertible number.
TimesPass ==
    \A key \in {"created", "updated"} \cap DOMAIN p_in.value.d :
        ~ Unconvertible(p_in.value.d[key])

C17_NoMessagesArrayIsFormatError ==
    (JsonCalled /\ ~ JsonConversation) =>
        /\ p_out.kind = "raise"
        /\ p_out.error.type = "ValueError"

\* The object without the timestamps.
WithoutTimes(d) == [k \in DOMAIN d \ {"created", "updated"} |-> d[k]]

\* What a timestamp leaves in the metadata: the iso string of the date, or
\* the raw value as a string.
TimeAbsorbed(d, key, name, metadata) ==
    key \in DOMAIN d =>
        /\ name \in DOMAIN metadata
        /\ \E r \in {FromTimestampMs(d[key])} :
              metadata[name] = IF r.ok THEN r.iso ELSE PyStr(d[key])

\* C18: a created or updated value that cannot be converted never makes the
\* parse fail: an object that parses without its timestamps parses with them,
\* to the same messages, and each timestamp is in the metadata as the iso
\* string or, when the conversion failed, as the raw value's string.
C18_BadTimestampAbsorbed ==
    (JsonCalled /\ JsonObject) =>
        \E bare \in {ParseJsonDict(WithoutTimes(p_in.value.d), 1)} :
            bare.ok =>
                /\ p_out.kind = "return"
                /\ p_out.value.messages = bare.messages
                /\ TimeAbsorbed(p_in.value.d, "created", "conversation_created",
                                p_out.value.metadata)
                /\ TimeAbsorbed(p_in.value.d, "updated", "conversation_updated",
                                p_out.value.metadata)

\* The elements of the messages array.
Elements == p_in.value.d["messages"].l

\* An element that is a mapping with a content that is not blank.
WithContent(el) ==
    /\ el.t = "dict"
    /\ "content" \in DOMAIN el.d
    /\ el.d["content"].t = "str"
    /\ Strip(el.d["content"].s) # <<>>

\* The message an element with content stands for: its content trimmed, its
\* role normalized, user when it has no role field.
Stands(message, el) ==
    /\ message.content = Strip(el.d["content"].s)
    /\ "role" \notin DOMAIN el.d => message.role = "user"
    /\ ("role" \in DOMAIN el.d /\ el.d["role"].t = "str")
          => message.role = NormalizeRole(el.d["role"].s)

\* The sum of the counts of a role distribution.
Total(counts) ==
    Cardinality(UNION { {r} \X (1 .. counts[r]) : r \in DOMAIN counts })

\* C27: for every messages array parse_json_chat returns exactly the elements
\* that are mappings with non-blank content, in their order, each with its
\* content trimmed and its role normalized (user when the role is missing);
\* every other element is skipped without an error, and message_count is the
\* number of the returned messages and the sum of the role_distribution.
C27_ReturnsElementsWithContent ==
    ( /\ JsonCalled
      /\ JsonConversation
      /\ TimesPass
      /\ \E i \in 1 .. Len(Elements) : WithContent(Elements[i]) ) =>
        /\ p_out.kind = "return"
        /\ \E kept \in {SelectSeq(Elements, WithContent)} :
              /\ Len(p_out.value.messages) = Len(kept)
              /\ \A n \in 1 .. Len(kept) :
                    Stands(p_out.value.messages[n], kept[n])
        /\ p_out.value.metadata.message_count = Len(p_out.value.messages)
        /\ Total(p_out.value.metadata.role_distribution)
              = Len(p_out.value.messages)

(***************************************************************************)
(* Properties of parse_markdown_chat and detect_content_type.              *)
(***************************************************************************)
MarkdownCalled == p_fn = "parse_markdown_chat" /\ p_out # NoResult

HasBody(match) == Strip(match[2]) # <<>>

\* The messages of the matches that have a body.
MessagesOf(kept) ==
    [n \in 1 .. Len(kept) |->
        [role |-> NormalizeRole(Strip(kept[n][1])),
         content |-> Strip(kept[n][2])]]

\* The call gave the whole text back as one message of the user.
SingleMessage ==
    /\ p_out.value.messages = <<[role |-> "user", content |-> Strip(p_in)]>>
    /\ p_out.value.metadata.format = "single_message"

\* C19: parse_markdown_chat runs its patterns in the order bold, heading,
\* line prefix, bracket and stops at the first that has a match: its messages
\* are the bodies of that pattern's matches alone, and when none of them has a
\* body, or no pattern has a match, the text comes back as a single message.
C19_FirstMatchingPatternOnly ==
    MarkdownCalled =>
        /\ p_out.kind = "return"
        /\ \E order \in {<<"bold", "heading", "line_prefix", "bracket">>} :
              LET hit == { i \in 1 .. 4 :
                             ReFindallFrom(order[i], p_in, 1) # <<>> }
              IN  IF hit = {}
                  THEN p_out.evaluated = order /\ SingleMessage
                  ELSE \E k \in hit :
                          /\ \A j \in hit : k <= j
                          /\ p_out.evaluated = SubSeq(order, 1, k)
                          /\ \E kept \in {SelectSeq(
                                 ReFindallFrom(order[k], p_in, 1), HasBody)} :
                                IF kept = <<>> THEN SingleMessage
                                ELSE /\ p_out.value.messages = MessagesOf(kept)
                                     /\ p_out.value.metadata.format
                                            = "conversation"

\* The bold pattern matched without a body to keep, the line-prefix pattern
\* would have given one, and the call stopped at the bold pattern.
C19_Witness ==
    /\ MarkdownCalled
    /\ ReFindall(1, p_in) # <<>>
    /\ SelectSeq(ReFindall(1, p_in), HasBody) = <<>>
    /\ SelectSeq(ReFindall(3, p_in), HasBody) # <<>>
    /\ p_out.evaluated = <<"bold">>
    /\ SingleMessage

DetectCalled == p_fn = "detect_content_type" /\ p_out # NoResult

\* C20: the kind of speaker mark by which detect_content_type classifies a
\* text as markdown_chat is a kind parse_markdown_chat has a pattern for.
C20_ParserHasDetectorPatterns ==
    (DetectCalled /\ p_out.value = "markdown_chat") =>
        \E i \in DOMAIN Patterns :
            Patterns[i] = ChatIndicators[FirstIndicator(p_in)]

\* The pattern the loop stops at has a match with a body.
Produced(content) ==
    IF \A i \in 1 .. 4 : ReFindall(i, content) = <<>> THEN FALSE
    ELSE \E k \in 1 .. 4 :
            /\ ReFindall(k, content) # <<>>
            /\ \A j \in 1 .. (k - 1) : ReFindall(j, content) = <<>>
            /\ \E body \in 1 .. Len(ReFindall(k, content)) :
                  HasBody(ReFindall(k, content)[body])

\* C21: parse_markdown_chat returns for every text, never raises, and never
\* returns an empty list; its format is single_message exactly when the
\* pattern loop produced no message, and then the one message it returns is
\* the whole trimmed text as the user's.
C21_MarkdownTotalWithFallback ==
    MarkdownCalled =>
        /\ p_out.kind = "return"
        /\ p_out.value.messages # <<>>
        /\ p_out.value.metadata.format \in {"conversation", "single_message"}
        /\ (p_out.value.metadata.format = "single_message") <=> ~Produced(p_in)
        /\ ~Produced(p_in) =>
              p_out.value.messages
                  = <<[role |-> "user", content |-> Strip(p_in)]>>

\* A text with characters but no speaker mark of any pattern came back as a
\* single message.
C21_Witness ==
    /\ MarkdownCalled
    /\ Strip(p_in) # <<>>
    /\ \A i \in 1 .. 4 : ReFindall(i, p_in) = <<>>
    /\ p_out.kind = "return"
    /\ Len(p_out.value.messages) = 1
    /\ p_out.value.metadata.format = "single_message"

(***************************************************************************)
(* Properties of the related-history query.                                *)
(***************************************************************************)
RelatedBuilt == p_fn = "search_weekly_report_data.related" /\ p_out # NoResult

MemoryOf(record) == IF "memory" \in DOMAIN record THEN record.memory ELSE <<>>

\* The memory texts of the first five records at most, a space between each
\* two.
RECURSIVE Spaced(_, _)
Spaced(records, n) ==
    IF n = 0 \/ records = <<>> THEN <<>>
    ELSE IF n = 1 \/ Len(records) = 1 THEN MemoryOf(Head(records))
    ELSE MemoryOf(Head(records)) \o <<32>> \o Spaced(Tail(records), n - 1)

\* The query text of the call that was built.
RelatedQuery == The(The(p_out.value).query)

\* C26: the query of the related-history search is the first 500 characters
\* of the memory texts of the first five week records at most, in the order
\* returned and joined by single spaces; it is never longer than 500
\* characters, and it is the query the first five records alone would give.
C26_RelatedQueryFromFirstFive ==
    (RelatedBuilt /\ p_out.value # None) =>
        /\ Len(RelatedQuery) <= 500
        /\ \E text \in {Spaced(p_in, 5)} :
              RelatedQuery
                  = SubSeq(text, 1, IF Len(text) < 500 THEN Len(text) ELSE 500)
        /\ \A sixth \in WeekRecords :
              Len(p_in) >= 6 =>
                  Some(RelatedQuery)
                      = RelatedCall([p_in EXCEPT ![6] = sixth], "u1", 17).query

\* Six records came back, the sixth with a text, the first five with more
\* than 500 characters between them: the query has 500 characters.
C26_Witness ==
    /\ RelatedBuilt
    /\ Len(p_in) >= 6
    /\ MemoryOf(p_in[6]) # <<>>
    /\ Len(Spaced(p_in, 5)) > 500
    /\ p_out.value # None
    /\ Len(RelatedQuery) = 500

(***************************************************************************)
(* Properties of _normalize_role.                                          *)
(***************************************************************************)
RoleCalled == p_fn = "_normalize_role" /\ p_out # NoResult

\* The label has an alias of the set in it, whatever the case of its letters.
HasAlias(label, aliases) ==
    \E alias \in aliases :
        \E k \in 0 .. (Len(label) - Len(alias)) :
            \A j \in 1 .. Len(alias) : LowerChar(label[k + j]) = alias[j]

\* C23: _normalize_role returns user, assistant or system for every label:
\* user when the label has a user alias in it, else assistant when it has an
\* assistant alias, else system when it has a system alias, else user.
C23_RoleFirstAliasSetWins ==
    RoleCalled =>
        /\ p_out.kind = "return"
        /\ p_out.value \in {"user", "assistant", "system"}
        /\ p_out.value =
              IF HasAlias(p_in, UserAliases) THEN "user"
              ELSE IF HasAlias(p_in, AssistantAliases) THEN "assistant"
              ELSE IF HasAlias(p_in, SystemAliases) THEN "system"
              ELSE "user"

\* A label with a user alias and an assistant alias in it came back as user.
C23_Witness ==
    /\ RoleCalled
    /\ HasAlias(p_in, UserAliases)
    /\ HasAlias(p_in, AssistantAliases)
    /\ p_out = Return("user")

(***************************************************************************)
(* Properties of parse_plain_text.                                         *)
(***************************************************************************)
PlainCalled == p_fn = "parse_plain_text"

\* C24: every call of parse_plain_text returns one message, the user's, with
\* the whole trimmed content; the format is raw_content for the raw mode and
\* ai_extract for any other; two calls on the same content return the same
\* messages whatever their modes.
C24_PlainTextOneMessage ==
    PlainCalled =>
        /\ \A n \in 1 .. Len(p_out) :
              /\ p_out[n].kind = "return"
              /\ p_out[n].value.messages
                    = <<[role |-> "user", content |-> Strip(p_in.content)]>>
              /\ p_out[n].value.metadata.format
                    = IF p_in.modes[n] = "raw" THEN "raw_content"
                      ELSE "ai_extract"
        /\ Len(p_out) = 2 => p_out[1].value.messages = p_out[2].value.messages

\* A content with whitespace around it was parsed in two different modes, one
\* of them raw, to the same messages and to different formats.
C24_Witness ==
    /\ PlainCalled
    /\ Len(p_out) = 2
    /\ p_in.modes[1] = "raw"
    /\ p_in.modes[2] # "raw"
    /\ Strip(p_in.content) # p_in.content
    /\ Strip(p_in.content) # <<>>
    /\ p_out[1].value.messages = p_out[2].value.messages
    /\ p_out[1].value.metadata.format # p_out[2].value.metadata.format

(***************************************************************************)
(* Properties of the metadata upload_text builds.                          *)
(***************************************************************************)
BuiltTwice == p_fn = "upload_text.final_metadata" /\ Len(p_out) = 2

\* The two mappings have the same keys and the same value at every key that
\* is not one of those named.
AgreeExcept(names) ==
    /\ DOMAIN p_out[1].metadata = DOMAIN p_out[2].metadata
    /\ \A key \in DOMAIN p_out[1].metadata \ names :
          p_out[1].metadata[key] = p_out[2].metadata[key]

FileCalled == p_fn = "parse_file" /\ p_out # NoResult

\* The content has an export marker, more than 3000 characters or more than
\* 50 newlines.
Exported(text) ==
    \/ Contains(text, MarkerEchoes)
    \/ Contains(text, MarkerExported)
    \/ Len(text) > 3000
    \/ Cardinality({ k \in 1 .. Len(text) : text[k] = 10 }) > 50

\* The call returned the one message of the plain-text parser.
PlainResult ==
    /\ p_out.kind = "return"
    /\ p_out.value.metadata.source = "plain_text"
    /\ p_out.value.messages
          = <<[role |-> "user", content |-> Strip(p_in.file.text)]>>

\* The call went to the parser of the content type: it returned that parser's
\* result, or the parser of JSON chats raised.
ParsedAs(content_type) ==
    \/ p_out.kind = "return" /\ p_out.value.metadata.source = content_type
    \/ p_out.kind = "raise" /\ content_type = "json_chat"

\* C22: parse_file on a .md file gives the plain-text parser's one message
\* when the content has an export marker, more than 3000 characters or more
\* than 50 newlines, whatever speaker marks it has; otherwise (3000
\* characters and 50 newlines included) the parser is the one of the content
\* type detect_content_type returns.
C22_MdOverride ==
    (FileCalled /\ p_in.path = "doc.md") =>
        IF Exported(p_in.file.text) THEN PlainResult
        ELSE ParsedAs(DetectContentType(p_in.file.text, ".md"))

\* A .md file with a bold speaker label and the marker "This conversation
\* was exported" came back as plain text.
C22_Witness ==
    /\ FileCalled
    /\ p_in.path = "doc.md"
    /\ Contains(p_in.file.text, MarkerExported)
    /\ ReSearch(1, p_in.file.text)
    /\ PlainResult

\* C29: the override of .md files follows the detection and holds for every
\* detected type: a .md file whose content is detected as a JSON chat and has
\* an export marker, more than 3000 characters or more than 50 newlines comes
\* back as the one user message of the plain-text parser and not as a JSON
\* conversation; under any other suffix the detected type alone selects the
\* parser.
C29_OverrideAfterDetection ==
    FileCalled =>
        \E detected \in {DetectContentType(p_in.file.text, Suffix(p_in.path))} :
            IF Suffix(p_in.path) = ".md"
            THEN Exported(p_in.file.text) =>
                    /\ PlainResult
                    /\ p_out.value.metadata.format # "json_conversation"
            ELSE /\ ParsedAs(detected)
                 /\ (detected = "json_chat" /\ p_out.kind = "return") =>
                        p_out.value.metadata.format = "json_conversation"

\* A .md file holding a valid JSON chat with the marker "Made with Echoes"
\* was detected as a JSON chat and came back as plain text.
C29_Witness ==
    /\ FileCalled
    /\ p_in.path = "doc.md"
    /\ p_in.file.text = TxtJsonEchoes
    /\ ParseJsonChat(TxtJsonEchoes, 1).ok
    /\ DetectContentType(p_in.file.text, ".md") = "json_chat"
    /\ PlainResult

(***************************************************************************)
(* Properties of MemoryUploader.                                           *)
(***************************************************************************)
Batch == u_op = "upload_batch"
BatchCameBack == Batch /\ u_pc = "done"

\* What the local checks of upload_file make of a path of the batch: whether
\* they pass does not depend on the moment of the call.
BatchLocal(file_path) ==
    FileLocal(file_path, OrElse(u_args.user_id, DefaultUserId),
              OrElse(u_args.extract_mode, DefaultExtractMode), NoOptions, 1, 1)

\* The paths among the first i whose local checks pass: each has one add.
AddsUpTo(i) == Cardinality({ j \in 1 .. i : BatchLocal(u_args.file_paths[j]).ok })

\* The entry the list owes to the i-th path.
EntryFor(i, entry) ==
    \E local \in {BatchLocal(u_args.file_paths[i])} :
        IF ~ local.ok
        THEN entry = [file |-> u_args.file_paths[i], status |-> "error",
                      error |-> local.error.text]
        ELSE \E r \in {u_resps[AddsUpTo(i)]} :
                IF r.ok
                THEN entry = [file |-> u_args.file_paths[i], status |-> "success",
                              result |-> r.result]
                ELSE entry = [file |-> u_args.file_paths[i], status |-> "error",
                              error |-> r.error.text]

\* C1: upload_batch never aborts on a failing file.  It never raises; the
\* paths it has handed to upload_file are a prefix of the input, one ahead of
\* the list at most; and when it returns, every path has been attempted, and
\* the list has one entry per path, in input order: "error" with the text of
\* the error when the file is missing, too large or unparsable or when add
\* failed, "success" with the backend's result otherwise.
C1_BatchNeverAborts ==
    Batch =>
        /\ u_result.kind # "raise"
        /\ Len(u_attempted) <= Len(u_args.file_paths)
        /\ u_attempted = SubSeq(u_args.file_paths, 1, Len(u_attempted))
        /\ Len(u_attempted) \in {Len(u_results), Len(u_results) + 1}
        /\ u_pc = "done" =>
            /\ u_result = Return(u_results)
            /\ u_attempted = u_args.file_paths
            /\ Len(u_results) = Len(u_args.file_paths)
            /\ Len(u_adds) = AddsUpTo(Len(u_args.file_paths))
            /\ Len(u_resps) = Len(u_adds)
            /\ \A i \in 1 .. Len(u_results) : EntryFor(i, u_results[i])

\* A batch of two came back: a missing first file, and a second one stored.
C1_Witness ==
    /\ BatchCameBack
    /\ u_args.file_paths = <<"gone.txt", "chat.json">>
    /\ u_result.value[1].status = "error"
    /\ u_result.value[2].status = "success"

TextAddSent == u_op = "upload_text" /\ u_adds # <<>>

\* C7: in the metadata upload_text sends, upload_time, user_id and
\* extract_mode hold the values computed for this upload whatever the caller's
\* metadata holds, and every other entry of the caller's metadata is there
\* (the entries of the processing options, written last, aside).
C7_UploadFieldsNotOverridable ==
    TextAddSent =>
        \E md \in {LastAdd.params.metadata} :
            /\ md.upload_time = IsoFormat(u_locals.upload_time)
            /\ md.user_id = u_locals.user_id
            /\ md.extract_mode = u_locals.extract_mode
            /\ u_args.metadata # None =>
                \A k \in DOMAIN The(u_args.metadata)
                            \ {"upload_time", "user_id", "extract_mode",
                               "custom_instructions", "includes", "excludes",
                               "infer"} :
                    md[k] = The(u_args.metadata)[k]

SingleUpload == u_op \in {"upload_text", "upload_file"}

\* C12: the core never retries a backend call.  One upload_text or
\* upload_file call invokes add at most once (inside a batch: at most once
\* per upload_file call), add has answered once the call is over, and the
\* call ends with add's result when add succeeded and raises add's own error
\* when add failed.
C12_AddOnceFailureRaised ==
    /\ SingleUpload =>
        /\ Len(u_adds) <= 1
        /\ Len(u_resps) <= Len(u_adds)
        /\ u_resps # <<>> =>
            /\ u_pc = "done"
            /\ u_result = IF u_resps[1].ok THEN Return(u_resps[1].result)
                          ELSE Raise(u_resps[1].error)
    /\ Batch =>
        /\ Len(u_adds) <= Len(u_attempted)
        /\ Len(u_resps) <= Len(u_adds)

\* upload_text is over: its one add failed and the failure came out.
C12_Witness ==
    /\ u_op = "upload_text"
    /\ u_pc = "done"
    /\ Len(u_adds) = 1
    /\ Len(u_resps) = 1
    /\ ~ u_resps[1].ok
    /\ u_result = Raise(Error("BackendError", "add failed"))

\* C13: every message a parser produces, and hence every message passed to
\* add, has content that is not empty after trimming.
C13_MessagesNeverBlank ==
    \A a \in 1 .. Len(u_adds) :
        \A k \in 1 .. Len(u_adds[a].messages) :
            Strip(u_adds[a].messages[k].content) # <<>>

SingleAddSent == SingleUpload /\ u_adds # <<>>

\* The caller's own metadata holds an entry named infer (upload_text only).
CallerInferEntry ==
    /\ u_op = "upload_text"
    /\ u_args.metadata # None
    /\ "infer" \in DOMAIN The(u_args.metadata)

\* C14 as stated: infer is in the parameters of add and in the metadata
\* exactly when the caller passed an infer value, with that value (False as
\* False), and an absent infer leaves no infer key at all.
C14_InferKeyIffPassed ==
    SingleAddSent =>
        \E params \in {LastAdd.params} :
            IF u_args.options.infer # None
            THEN /\ "infer" \in DOMAIN params
                 /\ params.infer = The(u_args.options.infer)
                 /\ "infer" \in DOMAIN params.metadata
                 /\ params.metadata.infer = The(u_args.options.infer)
            ELSE /\ "infer" \notin DOMAIN params
                 /\ "infer" \notin DOMAIN params.metadata

\* C14, amended: infer is in the parameters of add exactly when the caller
\* passed an infer value, and then it is in the metadata too, with that value
\* in both (False as False).  When infer is absent the metadata has no infer
\* entry either, unless the caller's own metadata of upload_text holds one,
\* which is sent as it is.  The calls upload_batch makes carry no infer.
C14_InferTriState ==
    /\ SingleAddSent =>
        \E params \in {LastAdd.params} :
            IF u_args.options.infer # None
            THEN /\ "infer" \in DOMAIN params
                 /\ params.infer = The(u_args.options.infer)
                 /\ "infer" \in DOMAIN params.metadata
                 /\ params.metadata.infer = The(u_args.options.infer)
            ELSE /\ "infer" \notin DOMAIN params
                 /\ "infer" \in DOMAIN params.metadata <=> CallerInferEntry
                 /\ CallerInferEntry =>
                        params.metadata.infer = The(u_args.metadata).infer
    /\ Batch =>
        \A a \in 1 .. Len(u_adds) :
            /\ "infer" \notin DOMAIN u_adds[a].params
            /\ "infer" \notin DOMAIN u_adds[a].params.metadata

\* upload_file was called with infer=False and add received False.
C14_Witness ==
    /\ u_op = "upload_file"
    /\ u_adds # <<>>
    /\ u_args.options.infer = Some(FALSE)
    /\ LastAdd.params.infer = FALSE
    /\ LastAdd.params.metadata.infer = FALSE

\* C15: the mapping a parse call returned is never mutated: when upload_text
\* or upload_file calls add, the parser's mapping still holds what it held
\* when it was returned.
C15_ParsedMetadataUnchanged ==
    SingleAddSent => u_locals.parsed_metadata = u_locals.parsed_returned

\* The file at the path passes the local checks of upload_file: it exists,
\* it is not over the size limit, and parse_file returns for it.
PassesChecks(path) ==
    /\ FileSystem(path).exists
    /\ FileSystem(path).size <= MaxFileSizeMb * BytesPerMb
    /\ ParseFile(path, OrElse(u_args.extract_mode, DefaultExtractMode), clock).ok

\* C28: upload_file calls the backend's add only after the file passed every
\* local check: for a file that does not exist, is over the size limit or
\* does not parse, the call raises and add is not called during it; under
\* upload_batch too there are never more calls of add than attempted files
\* that pass.
C28_AddOnlyAfterLocalChecks ==
    /\ u_op \in {"upload_file", "upload_batch"} =>
          Len(u_adds) <= Cardinality({ k \in 1 .. Len(u_attempted) :
                                           PassesChecks(u_attempted[k]) })
    /\ (u_op = "upload_file" /\ ~ PassesChecks(u_args.file_path)) =>
          /\ u_pc = "done"
          /\ u_result.kind = "raise"
          /\ u_adds = <<>>
          /\ u_resps = <<>>

\* upload_file of the chat without messages raised the parser's ValueError
\* and add was not called.
C28_Witness ==
    /\ u_op = "upload_file"
    /\ u_args.file_path = "empty.json"
    /\ u_pc = "done"
    /\ u_result = Raise(Error("ValueError", "No valid messages found in JSON"))
    /\ u_adds = <<>>

====
